---- MODULE Spec2Model ----
(***************************************************************************)
(* Glyphify: the GIF byte pipeline (LZWEncoder, GIFEncoder, the GIF        *)
(* worker), the main-process encoder host (gif:* and video:* handlers),    *)
(* the renderer's source / cache / conversion state machine and the        *)
(* animation export pipeline (encodeGIF, encodeVideoWebCodecs).            *)
(*                                                                         *)
(* The module holds several specifications over one set of variables:      *)
(*   SpecLZW       LZWEncoder.encode, one compress-loop iteration a step   *)
(*   SpecGif       the GIF worker's message handler driving GIFEncoder     *)
(*   SpecHost      the main process's gif:* handlers under any caller      *)
(*   SpecExport    one export: encodeGIF or encodeVideoWebCodecs           *)
(*   SpecRenderer  the renderer: load, clear, background extraction,       *)
(*                 convert and the Abort button                            *)
(*   SpecConverter ASCIIConverter.convertImageData on one source           *)
(*   SpecResample  convertVideo's choice of cached frames                  *)
(*   SpecProgress  the progress reports of a GIF's extraction, conversion  *)
(*                 and export                                              *)
(* Each specification leaves the variables of the others at their idle     *)
(* values.                                                                 *)
(***************************************************************************)
EXTENDS Integers, Sequences, FiniteSets, TLC

VARIABLES lzw, gw, gwPosted, host, hostReply, terminated, ex, wk, venc,
          state, controllers, jobs, rlog, cv, rs, pg, xt, pl, mk, gl, tm,
          te, nq, nx, xw

lzwVars == <<lzw>>
gifVars == <<gw, gwPosted>>
hostVars == <<host, hostReply, terminated>>
exportVars == <<ex, wk, venc>>
rendererVars == <<state, controllers, jobs, rlog>>
converterVars == <<cv>>
resampleVars == <<rs>>
progressVars == <<pg>>
extractVars == <<xt>>
paletteVars == <<pl>>
markupVars == <<mk>>
glyphVars == <<gl>>
timingVars == <<tm>>
transparentVars == <<te>>
neuQuantVars == <<nq>>
nativeVars == <<nx>>
workerExtractVars == <<xw>>
vars == <<lzw, gw, gwPosted, host, hostReply, terminated, ex, wk, venc,
          state, controllers, jobs, rlog, cv, rs, pg, xt, pl, mk, gl, tm,
          te, nq, nx, xw>>

(* what each specification leaves alone *)
exceptLZW ==
    <<gifVars, hostVars, exportVars, rendererVars, converterVars,
      resampleVars, progressVars, extractVars, paletteVars, markupVars,
      glyphVars, timingVars, transparentVars, neuQuantVars, nativeVars,
      workerExtractVars>>
exceptGif ==
    <<lzwVars, hostVars, exportVars, rendererVars, converterVars,
      resampleVars, progressVars, extractVars, paletteVars, markupVars,
      glyphVars, timingVars, transparentVars, neuQuantVars, nativeVars,
      workerExtractVars>>
exceptHost ==
    <<lzwVars, gifVars, exportVars, rendererVars, converterVars,
      resampleVars, progressVars, extractVars, paletteVars, markupVars,
      glyphVars, timingVars, transparentVars, neuQuantVars, nativeVars,
      workerExtractVars>>
exceptExport ==
    <<lzwVars, gifVars, rendererVars, converterVars, resampleVars,
      progressVars, extractVars, paletteVars, markupVars, glyphVars,
      timingVars, transparentVars, neuQuantVars, nativeVars,
      workerExtractVars>>
exceptRenderer ==
    <<lzwVars, gifVars, hostVars, exportVars, converterVars, resampleVars,
      progressVars, extractVars, paletteVars, markupVars, glyphVars,
      timingVars, transparentVars, neuQuantVars, nativeVars,
      workerExtractVars>>
exceptConverter ==
    <<lzwVars, gifVars, hostVars, exportVars, rendererVars, resampleVars,
      progressVars, extractVars, paletteVars, markupVars, glyphVars,
      timingVars, transparentVars, neuQuantVars, nativeVars,
      workerExtractVars>>
exceptResample ==
    <<lzwVars, gifVars, hostVars, exportVars, rendererVars, converterVars,
      progressVars, extractVars, paletteVars, markupVars, glyphVars,
      timingVars, transparentVars, neuQuantVars, nativeVars,
      workerExtractVars>>
exceptProgress ==
    <<lzwVars, gifVars, hostVars, exportVars, rendererVars, converterVars,
      resampleVars, extractVars, paletteVars, markupVars, glyphVars,
      timingVars, transparentVars, neuQuantVars, nativeVars,
      workerExtractVars>>
exceptExtract ==
    <<lzwVars, gifVars, hostVars, exportVars, rendererVars, converterVars,
      resampleVars, progressVars, paletteVars, markupVars, glyphVars,
      timingVars, transparentVars, neuQuantVars, nativeVars,
      workerExtractVars>>
exceptPalette ==
    <<lzwVars, gifVars, hostVars, exportVars, rendererVars, converterVars,
      resampleVars, progressVars, extractVars, markupVars, glyphVars,
      timingVars, transparentVars, neuQuantVars, nativeVars,
      workerExtractVars>>
exceptMarkup ==
    <<lzwVars, gifVars, hostVars, exportVars, rendererVars, converterVars,
      resampleVars, progressVars, extractVars, paletteVars, glyphVars,
      timingVars, transparentVars, neuQuantVars, nativeVars,
      workerExtractVars>>
exceptGlyph ==
    <<lzwVars, gifVars, hostVars, exportVars, rendererVars, converterVars,
      resampleVars, progressVars, extractVars, paletteVars, markupVars,
      timingVars, transparentVars, neuQuantVars, nativeVars,
      workerExtractVars>>
exceptTiming ==
    <<lzwVars, gifVars, hostVars, exportVars, rendererVars, converterVars,
      resampleVars, progressVars, extractVars, paletteVars, markupVars,
      glyphVars, transparentVars, neuQuantVars, nativeVars,
      workerExtractVars>>
exceptTransparent ==
    <<lzwVars, gifVars, hostVars, exportVars, rendererVars, converterVars,
      resampleVars, progressVars, extractVars, paletteVars, markupVars,
      glyphVars, timingVars, neuQuantVars, nativeVars, workerExtractVars>>
exceptNeuQuant ==
    <<lzwVars, gifVars, hostVars, exportVars, rendererVars, converterVars,
      resampleVars, progressVars, extractVars, paletteVars, markupVars,
      glyphVars, timingVars, transparentVars, nativeVars, workerExtractVars>>
exceptNative ==
    <<lzwVars, gifVars, hostVars, exportVars, rendererVars, converterVars,
      resampleVars, progressVars, extractVars, paletteVars, markupVars,
      glyphVars, timingVars, transparentVars, neuQuantVars,
      workerExtractVars>>
exceptWorkerExtract ==
    <<lzwVars, gifVars, hostVars, exportVars, rendererVars, converterVars,
      resampleVars, progressVars, extractVars, paletteVars, markupVars,
      glyphVars, timingVars, transparentVars, neuQuantVars, nativeVars>>

(* null for a variable that otherwise holds an object *)
NULL == [null |-> TRUE]

(* null for a variable that otherwise holds a number *)
NoValue == -1

(***************************************************************************)
(* Bounds of the model.                                                    *)
(***************************************************************************)
MaxSide == 2

(* pixel index values fed to the LZW encoder: both ends of 0..255 and two  *)
(* neighbours, so that repeated and distinct neighbours both occur         *)
PixelValues == {0, 1, 255}

(***************************************************************************)
(* Integer helpers for the 32-bit operators of the source.                 *)
(***************************************************************************)
Pow2(n) == 2 ^ n

RECURSIVE BitXor(_, _, _)
(* a ^ b on the low n bits *)
BitXor(a, b, n) ==
    IF n = 0 THEN 0
    ELSE (((a % 2) + (b % 2)) % 2) + 2 * BitXor(a \div 2, b \div 2, n - 1)

(***************************************************************************)
(* LZWEncoder (src/unnamed/part_001:1374-1523; the worker's copy at        *)
(* src/unnamed/part_002:360-509 is line for line the same).                *)
(***************************************************************************)
HSIZE == 5003
BITS == 12
colorDepthGIF == 8
FlushThreshold == 254

RECURSIVE HshiftCount(_)
(* for (fcode = HSIZE; fcode < 65536; fcode *= 2) hshift++ *)
HshiftCount(fcode) == IF fcode < 65536 THEN 1 + HshiftCount(fcode * 2) ELSE 0

hshift == 8 - HshiftCount(HSIZE)

(* new LZWEncoder(width, height, pixels, colorDepth) *)
LZWEncoder(width, height, pixels, colorDepth) ==
    [ width |-> width, height |-> height, pixels |-> pixels,
      initCodeSize |-> IF colorDepth > 2 THEN colorDepth ELSE 2,
      accum |-> <<>>,            \* accum[0 .. a_count-1]; a_count = Len(accum)
      htab |-> <<>>,             \* slot -> fcode, only the slots >= 0 are kept
      codetab |-> <<>>,          \* slot -> code, same domain as htab
      cur_accum |-> 0, cur_bits |-> 0,
      remaining |-> 0, curPixel |-> 0,
      ent |-> 0, free_ent |-> 0, g_bits |-> 0, g_maxcode |-> 0,
      outs |-> <<>>,             \* the bytes written to the ByteArray
      pc |-> "new" ]

(* htab[i], -1 for a slot never written since the last reset *)
HtabAt(e, i) == IF i \in DOMAIN e.htab THEN e.htab[i] ELSE -1

EmptyTab == [i \in {} |-> 0]

(* flush_char: one sub-block, a length byte and the buffered bytes *)
flush_char(e) ==
    IF Len(e.accum) > 0
    THEN [e EXCEPT !.outs = e.outs \o <<Len(e.accum)>> \o e.accum,
                   !.accum = <<>>]
    ELSE e

RECURSIVE DrainBytes(_)
(* while (cur_bits >= 8) { char_out(cur_accum & 0xff); cur_accum >>= 8; cur_bits -= 8 } *)
DrainBytes(e) ==
    IF e.cur_bits >= 8
    THEN DrainBytes([e EXCEPT !.accum = Append(e.accum, e.cur_accum % 256),
                              !.cur_accum = e.cur_accum \div 256,
                              !.cur_bits = e.cur_bits - 8])
    ELSE e

(* output(code, bits, outs): the masked accumulator and the shifted code    *)
(* share no bit, so the bitwise or is their sum                             *)
output(e, code, bits) ==
    LET masked == e.cur_accum % (Pow2(e.cur_bits))
        merged == IF e.cur_bits > 0 THEN masked + code * Pow2(e.cur_bits) ELSE code
        e1 == DrainBytes([e EXCEPT !.cur_accum = merged,
                                   !.cur_bits = e.cur_bits + bits])
    IN  IF Len(e1.accum) >= FlushThreshold THEN flush_char(e1) ELSE e1

ClearCode(e) == Pow2(e.initCodeSize)
EOFCode(e) == ClearCode(e) + 1

HasNextPixel(e) == e.remaining # 0

(* nextPixel() of a non-exhausted encoder: the state after it, the pixel in .ent untouched *)
PixelAt(e) == e.pixels[e.curPixel + 1] % 256
AdvancePixel(e) == [e EXCEPT !.remaining = e.remaining - 1, !.curPixel = e.curPixel + 1]

(* encode(outs) up to the compress loop: the code-size byte, the first      *)
(* pixel, the table reset and the leading clear code                        *)
EncodeBegin(e0) ==
    LET e1 == [e0 EXCEPT !.outs = Append(e0.outs, e0.initCodeSize),
                         !.remaining = e0.width * e0.height,
                         !.curPixel = 0]
        init_bits == e1.initCodeSize + 1
        e2 == [e1 EXCEPT !.g_bits = init_bits,
                         !.g_maxcode = Pow2(init_bits) - 1,
                         !.free_ent = ClearCode(e1) + 2,
                         !.accum = <<>>,
                         !.ent = PixelAt(e1),
                         !.htab = EmptyTab, !.codetab = EmptyTab]
    IN  [output(AdvancePixel(e2), ClearCode(e2), e2.g_bits) EXCEPT !.pc = "loop"]

RECURSIVE Probe(_, _, _, _)
(* the do/while of the secondary probe: <<found, slot>> *)
Probe(e, i, disp, fcode) ==
    LET j == IF i - disp < 0 THEN i - disp + HSIZE ELSE i - disp
    IN  IF HtabAt(e, j) = fcode THEN <<TRUE, j>>
        ELSE IF HtabAt(e, j) >= 0 THEN Probe(e, j, disp, fcode)
        ELSE <<FALSE, j>>

(* where the lookup of (c, ent) ends: <<found, slot>> *)
Lookup(e, c) ==
    LET fcode == c * Pow2(BITS) + e.ent
        i == BitXor(c * Pow2(hshift), e.ent, 13)
    IN  IF HtabAt(e, i) = fcode THEN <<TRUE, i>>
        ELSE IF HtabAt(e, i) >= 0
             THEN Probe(e, i, IF i = 0 THEN 1 ELSE HSIZE - i, fcode)
             ELSE <<FALSE, i>>

(* the code-width step that ends a loop iteration *)
WidenIfFull(e) ==
    IF e.free_ent > e.g_maxcode
    THEN LET b == IF e.g_bits + 1 > BITS THEN BITS ELSE e.g_bits + 1
         IN  [e EXCEPT !.g_bits = b, !.g_maxcode = Pow2(b) - 1]
    ELSE e

(* one iteration of the compress loop, for the pixel c just read *)
CompressStep(e0) ==
    LET c == PixelAt(e0)
        e == AdvancePixel(e0)
        hit == Lookup(e, c)
        i == hit[2]
        fcode == c * Pow2(BITS) + e.ent
    IN  IF hit[1]
        THEN [e EXCEPT !.ent = e.codetab[i]]
        ELSE LET e1 == [output(e, e.ent, e.g_bits) EXCEPT !.ent = c]
                 e2 == IF e1.free_ent < Pow2(BITS)
                       THEN [e1 EXCEPT !.codetab = (i :> e1.free_ent) @@ e1.codetab,
                                       !.htab = (i :> fcode) @@ e1.htab,
                                       !.free_ent = e1.free_ent + 1]
                       ELSE LET r == output([e1 EXCEPT !.htab = EmptyTab,
                                                       !.codetab = EmptyTab,
                                                       !.free_ent = ClearCode(e1) + 2],
                                            ClearCode(e1), e1.g_bits)
                            IN  [r EXCEPT !.g_bits = r.initCodeSize + 1,
                                          !.g_maxcode = Pow2(r.initCodeSize + 1) - 1]
             IN  WidenIfFull(e2)

(* the end of compress and of encode: the last prefix, the EOF code and the *)
(* block terminator                                                         *)
EncodeEnd(e) ==
    LET e1 == output(e, e.ent, e.g_bits)
        e2 == output(e1, EOFCode(e1), e1.g_bits)
    IN  [e2 EXCEPT !.outs = Append(e2.outs, 0), !.pc = "done"]

RECURSIVE CompressLoop(_)
CompressLoop(e) == IF HasNextPixel(e) THEN CompressLoop(CompressStep(e)) ELSE e

(* the encoder variable while another specification runs *)
IdleLZW == lzw = NULL

(* enc.encode(out) as one call: the bytes it appends *)
LZWEncode(width, height, pixels) ==
    EncodeEnd(CompressLoop(EncodeBegin(
        LZWEncoder(width, height, pixels, colorDepthGIF)))).outs

(***************************************************************************)
(* A GIF LZW decoder (GIF89a, appendix F), used to state the round trip.   *)
(***************************************************************************)
RECURSIVE SubBlocks(_, _)
(* the data bytes of the sub-blocks that start at position p (1-based) *)
SubBlocks(bytes, p) ==
    IF p > Len(bytes) \/ bytes[p] = 0 THEN <<>>
    ELSE LET n == bytes[p]
             last == IF p + n > Len(bytes) THEN Len(bytes) ELSE p + n
         IN  SubSeq(bytes, p + 1, last) \o SubBlocks(bytes, p + n + 1)

RECURSIVE ReadBits(_, _, _)
(* n bits from bit position pos (0-based), least significant first *)
ReadBits(data, pos, n) ==
    IF n = 0 THEN 0
    ELSE ((data[(pos \div 8) + 1] \div Pow2(pos % 8)) % 2) + 2 * ReadBits(data, pos + 1, n - 1)

RECURSIVE DecodeCodes(_, _, _, _, _, _, _)
(* table: code -> string, for the codes above EOF; prev: the previous code or -1 *)
DecodeCodes(data, pos, minSize, size, table, next, prev) ==
    LET clear == Pow2(minSize)
        Str(k) == IF k < clear THEN <<k>> ELSE table[k]
    IN  IF pos + size > 8 * Len(data) THEN <<>>
        ELSE LET code == ReadBits(data, pos, size)
             IN  IF code = clear
                 THEN DecodeCodes(data, pos + size, minSize, minSize + 1, EmptyTab, clear + 2, -1)
                 ELSE IF code = clear + 1 THEN <<>>
                 ELSE IF prev = -1
                 THEN IF code < clear
                      THEN <<code>> \o DecodeCodes(data, pos + size, minSize, size, table, next, code)
                      ELSE <<>>
                 ELSE IF code > next \/ (code > clear + 1 /\ code < next /\ code \notin DOMAIN table)
                 THEN <<>>
                 ELSE LET entry == IF code < next THEN Str(code)
                                   ELSE Append(Str(prev), Str(prev)[1])
                          full == next >= Pow2(12)
                          table1 == IF full THEN table
                                    ELSE (next :> Append(Str(prev), entry[1])) @@ table
                          next1 == IF full THEN next ELSE next + 1
                          size1 == IF next1 = Pow2(size) /\ size < 12 THEN size + 1 ELSE size
                      IN  entry \o DecodeCodes(data, pos + size, minSize, size1, table1, next1, code)

(* the pixels a GIF decoder reads from an image data block *)
LZWDecode(bytes) ==
    IF bytes = <<>> THEN <<>>
    ELSE DecodeCodes(SubBlocks(bytes, 2), 0, bytes[1], bytes[1] + 1, EmptyTab,
                     Pow2(bytes[1]) + 2, -1)

(***************************************************************************)
(* ByteArray and GIFEncoder (src/unnamed/part_001:762-1045).  The worker's *)
(* copy (src/unnamed/part_002:12-31, 514-700) writes the same bytes as     *)
(* this class does with transparent = null and dispose = -1, the only      *)
(* configuration the worker can reach.                                     *)
(*                                                                         *)
(* analyzePixels runs NeuQuant, whose training is floating-point; the      *)
(* model takes its result (the 768-byte colour table and the pixel index   *)
(* array) as an input of addFrame.                                         *)
(***************************************************************************)
writeByte(out, val) == Append(out, val)

(* writeShort: value & 0xff, then (value >> 8) & 0xff, for value >= 0 *)
writeShort(out, value) == out \o <<value % 256, (value \div 256) % 256>>

GIF89a == <<71, 73, 70, 56, 57, 97>>
GIF87a == <<71, 73, 70, 56, 55, 97>>
NETSCAPE20 == <<78, 69, 84, 83, 67, 65, 80, 69, 50, 46, 48>>
Trailer == 59

(* Math.round(ms / 10) for ms >= 0 *)
RoundDiv10(ms) == (ms + 5) \div 10

GIFEncoder(width, height) ==
    [ width |-> width, height |-> height,
      transparent |-> NoValue, transIndex |-> 0,
      repeat |-> 0, delay |-> 0,
      colorTab |-> <<>>, indexedPixels |-> <<>>, usedEntry |-> {},
      palSize |-> 7, dispose |-> -1, firstFrame |-> TRUE,
      out |-> <<>> ]

setDelay(g, ms) == [g EXCEPT !.delay = RoundDiv10(ms)]
setRepeat(g, iter) == [g EXCEPT !.repeat = iter]
setTransparent(g, color) == [g EXCEPT !.transparent = color]

writeLSD(g) ==
    LET o1 == writeShort(writeShort(g.out \o GIF89a, g.width), g.height)
    IN  [g EXCEPT !.out = o1 \o <<128 + 112 + g.palSize, 0, 0>>]

writePalette(g) ==
    [g EXCEPT !.out = g.out \o g.colorTab
                        \o [i \in 1..(768 - Len(g.colorTab)) |-> 0]]

writeNetscapeExt(g) ==
    [g EXCEPT !.out = writeByte(writeShort(g.out \o <<33, 255, 11>> \o NETSCAPE20 \o <<3, 1>>,
                                           g.repeat), 0)]

writeGraphicCtrlExt(g) ==
    LET transp == IF g.transparent = NoValue THEN 0 ELSE 1
        disp0 == IF g.transparent = NoValue THEN 0 ELSE 2
        disp == IF g.dispose >= 0 THEN g.dispose % 8 ELSE disp0
    IN  [g EXCEPT !.out = writeShort(g.out \o <<33, 249, 4, disp * 4 + transp>>, g.delay)
                            \o <<g.transIndex, 0>>]

writeImageDesc(g) ==
    LET o1 == writeShort(writeShort(g.out \o <<44, 0, 0, 0, 0>>, g.width), g.height)
    IN  [g EXCEPT !.out = writeByte(o1, IF g.firstFrame THEN 0 ELSE 128 + g.palSize)]

writePixels(g) ==
    [g EXCEPT !.out = g.out \o LZWEncode(g.width, g.height, g.indexedPixels)]

(* dr * dr + dg * dg + db * db for the entry at byte i of the colour table *)
EntryDistance(g, r, gr, b, i) ==
    (r - g.colorTab[i + 1]) * (r - g.colorTab[i + 1])
        + (gr - g.colorTab[i + 2]) * (gr - g.colorTab[i + 2])
        + (b - g.colorTab[i + 3]) * (b - g.colorTab[i + 3])

(* the loop of findClosest from byte i of the colour table up to byte     *)
(* end, with best = <<minpos, dmin>>: the three reads advance i past the   *)
(* entry before index = i / 3 is taken                                     *)
RECURSIVE ClosestEntryFrom(_, _, _, _, _, _, _)
ClosestEntryFrom(g, r, gr, b, i, end, best) ==
    IF i >= end THEN best
    ELSE IF (i + 3) \div 3 \in g.usedEntry /\ EntryDistance(g, r, gr, b, i) < best[2]
         THEN ClosestEntryFrom(g, r, gr, b, i + 3, end,
                               <<(i + 3) \div 3, EntryDistance(g, r, gr, b, i)>>)
         ELSE ClosestEntryFrom(g, r, gr, b, i + 3, end, best)

(* the same loop run in stretches of 64 entries, one after the other *)
RECURSIVE ClosestEntry(_, _, _, _, _, _)
ClosestEntry(g, r, gr, b, i, best) ==
    IF i >= Len(g.colorTab) THEN best
    ELSE LET next == ClosestEntryFrom(g, r, gr, b, i,
                                      IF i + 192 < Len(g.colorTab) THEN i + 192
                                      ELSE Len(g.colorTab), best)
         IN  IF next[2] >= 0 THEN ClosestEntry(g, r, gr, b, i + 192, next)
             ELSE next

(* findClosest(c) for a colour c = 0xRRGGBB; a colour table of null is the *)
(* empty sequence                                                          *)
findClosest(g, c) ==
    IF g.colorTab = <<>> THEN -1
    ELSE ClosestEntry(g, (c \div 65536) % 256, (c \div 256) % 256, c % 256,
                      0, <<0, 256 * 256 * 256>>)[1]

(* analyzePixels: the quantizer's colour table and index array; every      *)
(* index of the frame is marked in usedEntry, which is never cleared       *)
analyzePixels(g, q) ==
    LET g1 == [g EXCEPT !.colorTab = q.colorTab, !.indexedPixels = q.indexedPixels,
                        !.usedEntry = @ \cup { q.indexedPixels[i] : i \in DOMAIN q.indexedPixels },
                        !.palSize = 7]
    IN  IF g1.transparent # NoValue
        THEN [g1 EXCEPT !.transIndex = findClosest(g1, g1.transparent)]
        ELSE g1

(* an encoder that goes on taking every frame for its first *)
FirstFrameKept(g) == g

(* a header that holds the loop extension whatever repeat is *)
HeaderAlwaysLooping(g) ==
    IF g.firstFrame THEN writeNetscapeExt(writePalette(writeLSD(g))) ELSE g

(* the header part of addFrame, after which firstFrame is still unchanged *)
WriteFirstFrameHeader(g) ==
    IF g.firstFrame
    THEN LET g1 == writePalette(writeLSD(g))
         IN  IF g1.repeat >= 0 THEN writeNetscapeExt(g1) ELSE g1
    ELSE g

FirstFrameDone(g) == [g EXCEPT !.firstFrame = FALSE]

addFrame(g, q) ==
    LET g1 == WriteFirstFrameHeader(analyzePixels(g, q))
        g2 == writeImageDesc(writeGraphicCtrlExt(g1))
        g3 == IF ~g2.firstFrame THEN writePalette(g2) ELSE g2
    IN  FirstFrameDone(writePixels(g3))

finish(g) == [g EXCEPT !.out = writeByte(g.out, Trailer)]

(***************************************************************************)
(* The GIF worker's message handler (src/unnamed/part_002:705-831).        *)
(***************************************************************************)
MaxMsgs == 4
MaxFrames == MaxMsgs - 2

(* the 'init' messages tried: width, height, repeat, totalFrames, transparent *)
InitInputs ==
    { [width |-> 1, height |-> 1, repeat |-> 0,  totalFrames |-> 1, transparent |-> NoValue],
      [width |-> 2, height |-> 1, repeat |-> -1, totalFrames |-> 2, transparent |-> NoValue],
      [width |-> 1, height |-> 1, repeat |-> 0,  totalFrames |-> 1, transparent |-> 0] }
ConstTab(v) == [i \in 1..768 |-> v]

(* what analyzePixels may return for a w x h frame *)
Quantized(w, h) ==
    { [colorTab |-> ConstTab(0),  indexedPixels |-> [i \in 1..(w * h) |-> 0]],
      [colorTab |-> ConstTab(59), indexedPixels |-> [i \in 1..(w * h) |-> IF i = 1 THEN 255 ELSE 1]] }

(* frame.delay of a message; 0 stands for a missing delay *)
DelayOf(q) == IF q.colorTab[1] = 0 THEN 0 ELSE 40

WorkerIdle == [encoder |-> NULL, totalFrames |-> 0, processedFrames |-> 0,
               width |-> 0, height |-> 0]

Post(m) == gwPosted' = Append(gwPosted, m)
PostError(text) == Post([type |-> "error", error |-> text])

(* frames a message may carry for the worker's current size *)
FrameInputs == { [data |-> q, delay |-> DelayOf(q)] : q \in Quantized(gw.width, gw.height) }
BatchInputs == { <<f, g>> : f \in FrameInputs, g \in FrameInputs }

(* encoder.setDelay(frame.delay || 100); encoder.addFrame(frame.data) *)
WorkerAddFrame(g, f) == addFrame(setDelay(g, IF f.delay = 0 THEN 100 ELSE f.delay), f.data)

RECURSIVE WorkerAddFrames(_, _)
WorkerAddFrames(g, fs) ==
    IF fs = <<>> THEN g ELSE WorkerAddFrames(WorkerAddFrame(g, Head(fs)), Tail(fs))

(* every handled message posts one reply; the other specifications' variables rest *)
CanHandle == Len(gwPosted) < MaxMsgs /\ UNCHANGED exceptGif

(* type 'init': setTransparent is no method of the worker's GIFEncoder, so a *)
(* non-null transparent throws after the encoder has been assigned          *)
WkInit ==
    /\ CanHandle
    /\ \E m \in InitInputs :
        /\ gw' = [encoder |-> setRepeat(GIFEncoder(m.width, m.height), m.repeat),
                  totalFrames |-> m.totalFrames, processedFrames |-> 0,
                  width |-> m.width, height |-> m.height]
        /\ IF m.transparent = NoValue
           THEN Post([type |-> "ready"])
           ELSE PostError("encoder.setTransparent is not a function")

WkFrame ==
    /\ CanHandle
    /\ IF gw.encoder = NULL
       THEN /\ PostError("Encoder not initialized")
            /\ UNCHANGED gw
       ELSE /\ gw.processedFrames < MaxFrames
            /\ \E f \in FrameInputs :
                 gw' = [gw EXCEPT !.encoder = WorkerAddFrame(gw.encoder, f),
                                  !.processedFrames = gw.processedFrames + 1]
            /\ Post([type |-> "progress", done |-> gw.processedFrames + 1,
                     total |-> gw.totalFrames])

WkFrames ==
    /\ CanHandle
    /\ IF gw.encoder = NULL
       THEN /\ PostError("Encoder not initialized")
            /\ UNCHANGED gw
       ELSE \E fs \in BatchInputs :
            /\ gw.processedFrames + Len(fs) <= MaxFrames
            /\ gw' = [gw EXCEPT !.encoder = WorkerAddFrames(gw.encoder, fs),
                                !.processedFrames = gw.processedFrames + Len(fs)]
            /\ Post([type |-> "progress", done |-> gw.processedFrames + Len(fs),
                     total |-> gw.totalFrames])

(* a worker that validates nothing *)
NothingInvalid(data) == FALSE

(* data.length < 6 || String.fromCharCode(...data.slice(0, 3)) !== 'GIF' *)
InvalidGifData(data) == Len(data) < 6 \/ SubSeq(data, 1, 3) # SubSeq(GIF89a, 1, 3)

WkFinish ==
    /\ CanHandle
    /\ IF gw.encoder = NULL
       THEN /\ PostError("Encoder not initialized")
            /\ UNCHANGED gw
       ELSE LET g == finish(gw.encoder)
            IN  IF InvalidGifData(g.out)
                THEN /\ gw' = [gw EXCEPT !.encoder = g]
                     /\ PostError("Invalid GIF data generated")
                ELSE /\ gw' = [gw EXCEPT !.encoder = NULL, !.totalFrames = 0,
                                         !.processedFrames = 0]
                     /\ Post([type |-> "complete", data |-> g.out])

WkAbort ==
    /\ CanHandle
    /\ gw' = [gw EXCEPT !.encoder = NULL, !.totalFrames = 0, !.processedFrames = 0]
    /\ PostError("Aborted by user")

InitGif == gw = WorkerIdle /\ gwPosted = <<>>

IdleGif == InitGif

NextGif == WkInit \/ WkFrame \/ WkFrames \/ WkFinish \/ WkAbort

(* how many times pat occurs in s *)
Occurrences(s, pat) ==
    Cardinality({ p \in 1..Len(s) : /\ p + Len(pat) - 1 <= Len(s)
                                    /\ SubSeq(s, p, p + Len(pat) - 1) = pat })

Completed == { gwPosted[k].data : k \in { j \in DOMAIN gwPosted : gwPosted[j].type = "complete" } }

(* C4: a finished GIF begins with GIF89a, written once, and ends with 0x3B *)
C4_HeaderAndTrailer ==
    \A data \in Completed :
        /\ Len(data) > 6
        /\ SubSeq(data, 1, 6) = GIF89a
        /\ Occurrences(data, GIF89a) = 1
        /\ data[Len(data)] = Trailer

(* a finished GIF of two frames has been handed back *)
C4_Witness ==
    \E data \in Completed : Occurrences(data, <<33, 249, 4>>) = 2

RECURSIVE AfterSubBlocks(_, _)
AfterSubBlocks(bytes, p) ==
    IF p > Len(bytes) THEN 0
    ELSE IF bytes[p] = 0 THEN p + 1
    ELSE AfterSubBlocks(bytes, p + bytes[p] + 1)

(* the bytes of s from position p on begin with pat *)
HasAt(s, p, pat) == p + Len(pat) - 1 <= Len(s) /\ SubSeq(s, p, p + Len(pat) - 1) = pat

(* how many frames the bytes from position p on hold, each a graphic       *)
(* control extension, an image descriptor of the whole w x h screen whose  *)
(* packed byte announces a local palette for every frame but the first,    *)
(* that palette of 768 bytes, and an image data block; -1 when the bytes   *)
(* are no such frames                                                      *)
RECURSIVE FramesFrom(_, _, _, _, _)
FramesFrom(bytes, p, first, w, h) ==
    IF p = Len(bytes) + 1 THEN 0
    ELSE IF ~(/\ HasAt(bytes, p, <<33, 249, 4>>)
              /\ HasAt(bytes, p + 7, <<0>>)
              /\ HasAt(bytes, p + 8, writeShort(writeShort(<<44, 0, 0, 0, 0>>, w), h))
              /\ HasAt(bytes, p + 17, <<IF first THEN 0 ELSE 135>>))
    THEN -1
    ELSE LET data == IF first THEN p + 18 ELSE p + 18 + 768
             next == AfterSubBlocks(bytes, data + 1)
             rest == IF next = 0 THEN -1 ELSE FramesFrom(bytes, next, FALSE, w, h)
         IN  IF data > Len(bytes) \/ rest = -1 THEN -1 ELSE rest + 1

(* the NETSCAPE2.0 application extension for a loop count *)
LoopExtension(repeat) ==
    writeByte(writeShort(<<33, 255, 11>> \o NETSCAPE20 \o <<3, 1>>, repeat), 0)

(* the frames of a stream that begins, at position p, with the header, the *)
(* logical screen descriptor, the global palette and, if and only if       *)
(* repeat >= 0, the loop extension; -1 when it does not                    *)
FramesOfStream(bytes, p, repeat, w, h) ==
    LET lsd == writeShort(writeShort(GIF89a, w), h) \o <<247, 0, 0>>
        ext == IF repeat >= 0 THEN LoopExtension(repeat) ELSE <<>>
    IN  IF HasAt(bytes, p, lsd) /\ HasAt(bytes, p + 13 + 768, ext)
        THEN FramesFrom(bytes, p + 13 + 768 + Len(ext), TRUE, w, h)
        ELSE -1

(* C26: what an encoder that has taken frames, and whose finish() has not   *)
(* been called, has written is the header with the logical screen          *)
(* descriptor, the global palette and, if and only if repeat >= 0, one     *)
(* NETSCAPE2.0 loop extension, each once and before the first frame, and   *)
(* then for each frame a graphic control extension, an image descriptor, a *)
(* local palette if and only if the frame is not the first, and the LZW    *)
(* pixel block.  A finish() puts its trailer first in the stream when it   *)
(* comes before the first frame, and ends the encoder when it comes later  *)
C26_StreamLayout ==
    (gw.encoder # NULL /\ gw.processedFrames > 0 /\ gw.encoder.out[1] # Trailer) =>
        LET out == gw.encoder.out
        IN  /\ FramesOfStream(out, 1, gw.encoder.repeat, gw.width, gw.height)
                   = gw.processedFrames
            /\ Occurrences(out, GIF89a) = 1
            /\ Occurrences(out, NETSCAPE20) = (IF gw.encoder.repeat >= 0 THEN 1 ELSE 0)

(* an encoder without a loop count has taken two frames *)
C26_Witness ==
    /\ gw.encoder # NULL /\ gw.processedFrames = 2 /\ gw.encoder.repeat < 0
    /\ gw.encoder.out[1] # Trailer

(* the last message the worker handled was an abort: it is idle and the    *)
(* last thing it posted is the abort's error                               *)
JustAborted ==
    /\ gw = WorkerIdle
    /\ gwPosted # <<>>
    /\ gwPosted[Len(gwPosted)] = [type |-> "error", error |-> "Aborted by user"]

(* C29: cancelling is idempotent: a second abort message to the GIF worker *)
(* (like a second gif:cancel and a second Abort click) changes no state,   *)
(* raises no error and emits nothing further                               *)
C29_SecondAbortSilent ==
    [][(WkAbort /\ JustAborted) => UNCHANGED <<gw, gwPosted>>]_vars

(***************************************************************************)
(* The main process's GIF encoder host (src/src/main.js:305-449).          *)
(*                                                                         *)
(* host.now is Date.now(), host.gifEncoders is global.gifEncoders, and     *)
(* host.heap holds the gif.js GIFEncoder objects the map entries and the   *)
(* running gif:addFrames calls refer to.  Of an encoder's output the model *)
(* keeps what was written to it: the header, the frames and the trailers.  *)
(* host.calls are the gif:addFrames calls suspended at their setImmediate, *)
(* host.muxers is global.muxers with the chunks each muxer was given.      *)
(*                                                                         *)
(* hostReply is what the handler that ran last has answered, terminated    *)
(* the handles that were finalized or cancelled since they were created,   *)
(* and an encoder's canceled field whether gif:cancel unregistered it:     *)
(* these three record history, the handlers do not read them.              *)
(***************************************************************************)
MaxEncoders == 1
MaxClock == MaxEncoders
MaxCalls == MaxEncoders
MaxHostFrames == MaxEncoders + 1

GifIds == 0..MaxClock

(* pixels.length of a frame against width * height * 4 = 4 of the encoder; *)
(* NoValue is a pixels value of no supported type                          *)
HostFrame(px, len) == [px |-> px, len |-> len]
HostBatches ==
    { <<HostFrame(1, 4)>>, <<HostFrame(1, 4), HostFrame(1, 4)>>,
      <<HostFrame(1, 4), HostFrame(1, 8)>>, <<HostFrame(1, NoValue)>> }

IdleHost ==
    /\ host = [now |-> 0, gifEncoders |-> <<>>, muxers |-> <<>>, heap |-> <<>>,
               calls |-> <<>>]
    /\ hostReply = [op |-> "none", result |-> "none", dead |-> FALSE, appended |-> 0,
                    total |-> 0]
    /\ terminated = {}

(* dead: the handle was finalized or cancelled when the call came in;      *)
(* appended: what the step appended to the encoder's output; total: the    *)
(* frames the call has added to the encoder since it came in               *)
ReplyOfCall(op, result, dead, appended, total) ==
    hostReply' = [op |-> op, result |-> result, dead |-> dead, appended |-> appended,
                  total |-> total]

Reply(op, result, dead, appended) == ReplyOfCall(op, result, dead, appended, appended)

(* a host whose map keeps the entry *)
KeepRegistered(m, gifId) == m

(* global.gifEncoders.delete(gifId) *)
Unregister(m, gifId) == [k \in DOMAIN m \ {gifId} |-> m[k]]

(* gif:create: the handle is the clock's reading *)
gif_create ==
    /\ LET gifId == host.now
           encoder == [header |-> 1, frames |-> <<>>, trailers |-> 0, canceled |-> FALSE]
       IN  /\ host' = [host EXCEPT
                  !.heap = Append(@, encoder),
                  !.gifEncoders = (gifId :> [encoder |-> Len(host.heap) + 1, size |-> 4]) @@ @]
           /\ Reply("create", "ok", FALSE, 0)
           /\ terminated' = terminated \ {gifId}

(* the loop of gif:addFrames from the top of an iteration to its await, to *)
(* a throw or to the return; c is the call, at slot k of host.calls when   *)
(* it has been suspended before and at no slot (k = 0) when it starts      *)
RunAddFrames(c, k) ==
    LET others == [i \in 1..(Len(host.calls) - (IF k = 0 THEN 0 ELSE 1)) |->
                       host.calls[IF k = 0 \/ i < k THEN i ELSE i + 1]]
        ends(result, n) == /\ host' = [host EXCEPT !.calls = others]
                           /\ ReplyOfCall("addFrames", result, c.dead, n, c.added)
    IN  IF c.frames = <<>> THEN ends("ok", 0)
        ELSE LET f == Head(c.frames)
             IN  IF f.len = NoValue THEN ends("Unsupported frame pixel format", 0)
                 ELSE IF f.len # c.size
                 THEN ends("Frame pixel size does not match encoder size", 0)
                 ELSE /\ host' = [host EXCEPT
                             !.heap[c.encoder].frames = Append(@, f.px),
                             !.calls = Append(others, [c EXCEPT !.frames = Tail(@),
                                                                !.added = @ + 1])]
                      /\ ReplyOfCall("addFrames", "pending", c.dead, 1, c.added + 1)

gif_addFrames(gifId, frames) ==
    /\ UNCHANGED terminated
    /\ IF gifId \notin DOMAIN host.gifEncoders
       THEN /\ Reply("addFrames", "GIF encoder not found", gifId \in terminated, 0)
            /\ UNCHANGED host
       ELSE LET info == host.gifEncoders[gifId]
            IN  RunAddFrames([gifId |-> gifId, encoder |-> info.encoder,
                              size |-> info.size, frames |-> frames, added |-> 0,
                              dead |-> gifId \in terminated], 0)

(* a suspended gif:addFrames call runs on after its setImmediate *)
gif_addFrames_resume(k) ==
    /\ UNCHANGED terminated
    /\ RunAddFrames(host.calls[k], k)

(* gif:finalize; fsOk is whether writeFileSync and copyFileSync succeed *)
gif_finalize(gifId, savePath, fsOk) ==
    IF gifId \notin DOMAIN host.gifEncoders
    THEN /\ Reply("finalize", "GIF encoder not found", gifId \in terminated, 0)
         /\ UNCHANGED <<host, terminated>>
    ELSE LET e == host.gifEncoders[gifId].encoder
             finished == [host EXCEPT !.heap[e].trailers = @ + 1]
             isGif == finished.heap[e].header > 0
             done == [finished EXCEPT !.gifEncoders = Unregister(@, gifId)]
         IN  /\ fsOk \/ host.heap[e].trailers = 0
             /\ IF ~fsOk
                THEN /\ host' = finished
                     /\ Reply("finalize", "fs error", gifId \in terminated, 1)
                     /\ UNCHANGED terminated
                ELSE IF ~savePath /\ ~isGif
                THEN /\ host' = finished
                     /\ Reply("finalize", "invalid_gif", gifId \in terminated, 1)
                     /\ UNCHANGED terminated
                ELSE /\ host' = done
                     /\ Reply("finalize", "ok", gifId \in terminated, 1)
                     /\ terminated' = terminated \cup {gifId}

(* gif:cancel *)
gif_cancel(gifId) ==
    IF gifId \notin DOMAIN host.gifEncoders
    THEN /\ Reply("cancel", "canceled: false", gifId \in terminated, 0)
         /\ UNCHANGED <<host, terminated>>
    ELSE LET e == host.gifEncoders[gifId].encoder
         IN  /\ host' = [host EXCEPT !.gifEncoders = Unregister(@, gifId),
                                     !.heap[e].canceled = TRUE]
             /\ Reply("cancel", "canceled: true", gifId \in terminated, 0)
             /\ terminated' = terminated \cup {gifId}

(* SpecHost: a caller that may invoke any handler with any handle *)
HostTick ==
    /\ UNCHANGED <<exceptHost, hostReply, terminated>>
    /\ host.now < MaxClock
    /\ host.now < Len(host.heap)
    /\ host' = [host EXCEPT !.now = @ + 1]

HostCreate ==
    /\ UNCHANGED exceptHost
    /\ Len(host.heap) < MaxEncoders
    /\ gif_create

(* the frames an encoder holds and those its suspended calls still carry *)
FramesDue(e) ==
    LET RECURSIVE due(_)
        due(k) == IF k = 0 THEN 0
                  ELSE due(k - 1) + (IF host.calls[k].encoder = e
                                     THEN Len(host.calls[k].frames) ELSE 0)
    IN  Len(host.heap[e].frames) + due(Len(host.calls))

HostAddFrames ==
    /\ UNCHANGED exceptHost
    /\ Len(host.calls) < MaxCalls
    /\ \E gifId \in GifIds, frames \in HostBatches :
           /\ gifId \in DOMAIN host.gifEncoders =>
                  FramesDue(host.gifEncoders[gifId].encoder) + Len(frames) <= MaxHostFrames
           /\ gif_addFrames(gifId, frames)

HostResume ==
    /\ UNCHANGED exceptHost
    /\ \E k \in DOMAIN host.calls : gif_addFrames_resume(k)

HostFinalize ==
    /\ UNCHANGED exceptHost
    /\ \E gifId \in GifIds, savePath \in BOOLEAN, fsOk \in BOOLEAN :
           gif_finalize(gifId, savePath, fsOk)

HostCancel ==
    /\ UNCHANGED exceptHost
    /\ \E gifId \in GifIds : gif_cancel(gifId)

NextHost ==
    HostTick \/ HostCreate \/ HostAddFrames \/ HostResume \/ HostFinalize \/ HostCancel

(* C39: when gif:addFrames fails on a frame of its batch, it has added no  *)
(* frame of that batch to the encoder                                      *)
C39_FailedBatchAddsNothing ==
    (hostReply.op = "addFrames"
         /\ hostReply.result \in {"Unsupported frame pixel format",
                                  "Frame pixel size does not match encoder size"})
        => hostReply.total = 0

(* C1: a gif:addFrames or gif:finalize on a handle that was finalized or   *)
(* cancelled fails with an error and appends nothing                       *)
C1_TerminalHandles ==
    (hostReply.op \in {"addFrames", "finalize"} /\ hostReply.dead) =>
        (hostReply.result = "GIF encoder not found" /\ hostReply.appended = 0)

(* a handle that took a frame and was then cancelled or finalized has been *)
(* called again                                                            *)
C1_Witness ==
    /\ hostReply.op \in {"addFrames", "finalize"}
    /\ hostReply.dead
    /\ \E e \in DOMAIN host.heap :
           /\ host.heap[e].frames # <<>>
           /\ \A g \in DOMAIN host.gifEncoders : host.gifEncoders[g].encoder # e

(* C16: a finalize on a handle that was finalized before fails with an     *)
(* error and appends no second trailer byte, whatever the first finalize   *)
(* returned                                                                *)
C16_SecondFinalizeFails ==
    /\ \A e \in DOMAIN host.heap : host.heap[e].trailers <= 1
    /\ \A e \in DOMAIN host.heap :
           (hostReply.op = "finalize" /\ host.heap[e].trailers > 1) =>
               hostReply.result = "GIF encoder not found"

(* C2: the encoder of a cancelled handle takes no further frame *)
C2_NoFrameAfterCancel ==
    [][\A e \in DOMAIN host.heap :
           host.heap[e].canceled => host'.heap[e].frames = host.heap[e].frames]_vars

(***************************************************************************)
(* The export pipeline: ASCIIAnimationEncoder.encodeGIF and                *)
(* encodeVideoWebCodecs (src/unnamed/part_001:1606-1813, 1952-2143) as     *)
(* saveAsGIF and saveAsMP4 call them (src/src/renderer/renderer.js:        *)
(* 1863-1946), against the host above, the GIF worker and a VideoEncoder.  *)
(*                                                                         *)
(* ex is the running export: its kind, this.frames.length (n), where it is *)
(* (pc), abortSignal.aborted, the handle it holds (id), the index of its   *)
(* loop (i), whether its abort listener is attached, the gif:cancel calls  *)
(* sent and not yet handled (cancels), the answer of the gif:addFrames     *)
(* call it awaits (ret), the encoder path taken, how it ended (outcome),   *)
(* how many chunks the host rejected, and whether encodeGIF has read       *)
(* abortSignal.aborted as true (sawAbort).  A frame is its index.          *)
(* wk is the worker of the fallback path with both message queues; of its  *)
(* encoder the model keeps the frames it was given.  venc is the           *)
(* VideoEncoder: the frames encoded, the chunks not yet put out, and the   *)
(* chunks whose addVideoChunk call the host has not handled yet.           *)
(***************************************************************************)
MaxJobFrames == 13
MaxRejects == 1

(* navigator.hardwareConcurrency || 4 *)
coreCount == 4
MainBatchSize == IF 2 * coreCount > 12 THEN 2 * coreCount ELSE 12
WorkerBatchSize == IF coreCount > 3 THEN coreCount ELSE 3

Min(a, b) == IF a < b THEN a ELSE b

(* the frames with index i .. j - 1 *)
FrameRange(i, j) == [k \in 1..(j - i) |-> i + k - 1]

(* a batch that holds its first frame over and over *)
BatchRepeating(i, n, size) == [k \in 1..(Min(n, i + size) - i) |-> i]

(* the batch both loops build: this.frames[i .. min(n, i + size) - 1] *)
BatchOf(i, n, size) == FrameRange(i, Min(n, i + size))

(* log is the history of the worker's messages, those sent to it and those *)
(* it posted, in order: the type of each and the number of frames it held  *)
IdleWorker == [alive |-> FALSE, encoder |-> NULL, inbox |-> <<>>, outbox |-> <<>>,
               data |-> <<>>, log |-> <<>>]
IdleExport ==
    /\ ex = [kind |-> "none", n |-> 0, pc |-> "done", aborted |-> FALSE, id |-> NoValue,
             i |-> 0, listener |-> FALSE, cancels |-> 0, ret |-> "none",
             path |-> "none", outcome |-> "none", rejected |-> 0, data |-> <<>>,
             sawAbort |-> FALSE]
    /\ wk = IdleWorker
    /\ venc = [frames |-> <<>>, pending |-> <<>>, inflight |-> <<>>]

InitExport ==
    /\ \E kind \in {"gif", "mp4"}, n \in 1..MaxJobFrames :
           ex = [kind |-> kind, n |-> n, pc |-> "start", aborted |-> FALSE, id |-> NoValue,
                 i |-> 0, listener |-> FALSE, cancels |-> 0, ret |-> "none",
                 path |-> "none", outcome |-> "none", rejected |-> 0, data |-> <<>>,
             sawAbort |-> FALSE]
    /\ wk = IdleWorker
    /\ venc = [frames |-> <<>>, pending |-> <<>>, inflight |-> <<>>]

(* the answer of a gif:addFrames call once the handler has returned or thrown *)
Returned == IF hostReply'.result = "pending" THEN "none" ELSE hostReply'.result

(* the catch of the main-process path: every error leads to the worker path *)
FallBack(e) == [e EXCEPT !.pc = "worker", !.ret = "none"]

(* if (abortSignal?.aborted) { ...; throw ae } *)
ThrowAbortError(e) == [e EXCEPT !.sawAbort = TRUE]

(* abortHandler(): window.electronAPI.cancelGif(gifId) *)
abortHandler(e) == [e EXCEPT !.cancels = @ + 1]

(* the Abort button while the export runs (renderer.js:2425-2431) *)
ExAbort ==
    /\ UNCHANGED <<exceptExport, hostVars, wk, venc>>
    /\ ex.pc \notin {"done", "hung"} /\ ~ex.aborted
    /\ ex' = [(IF ex.listener THEN abortHandler(ex) ELSE ex) EXCEPT
                 !.aborted = TRUE, !.listener = FALSE]

(* encodeGIF up to the first batch: isGifEncoderAvailable, createGifEncoder *)
ExStartGif ==
    /\ UNCHANGED <<exceptExport, wk, venc>>
    /\ ex.pc = "start" /\ ex.kind = "gif"
    /\ \E mainAvailable \in BOOLEAN :
           IF mainAvailable
           THEN /\ gif_create
                /\ ex' = [ex EXCEPT !.pc = "batch", !.id = host.now, !.path = "main",
                                    !.listener = ~ex.aborted]
           ELSE /\ ex' = [ex EXCEPT !.pc = "worker"]
                /\ UNCHANGED hostVars

(* the top of the batch loop to the addGifFrames call, or past the loop to *)
(* the finalizeGif call                                                    *)
ExBatch ==
    /\ UNCHANGED <<exceptExport, wk, venc>>
    /\ ex.pc = "batch"
    /\ IF ex.aborted
       THEN /\ ex' = FallBack(ThrowAbortError(IF ex.i < ex.n THEN abortHandler(ex) ELSE ex))
            /\ UNCHANGED hostVars
       ELSE IF ex.i < ex.n
       THEN /\ gif_addFrames(ex.id, [k \in 1..Len(BatchOf(ex.i, ex.n, MainBatchSize)) |->
                                        HostFrame(BatchOf(ex.i, ex.n, MainBatchSize)[k], 4)])
            /\ ex' = [ex EXCEPT !.pc = "adding", !.ret = Returned]
       ELSE /\ \E fsOk \in BOOLEAN : gif_finalize(ex.id, FALSE, fsOk)
            /\ ex' = [ex EXCEPT !.pc = "finalizing", !.ret = hostReply'.result]

(* the host runs the suspended gif:addFrames call on *)
ExHostResume ==
    /\ UNCHANGED <<exceptExport, wk, venc>>
    /\ host.calls # <<>>
    /\ gif_addFrames_resume(1)
    /\ ex' = [ex EXCEPT !.ret = Returned]

(* the host handles a gif:cancel the abort handler has sent *)
ExHostCancel ==
    /\ UNCHANGED <<exceptExport, wk, venc>>
    /\ ex.cancels > 0
    /\ gif_cancel(ex.id)
    /\ ex' = [ex EXCEPT !.cancels = @ - 1]

(* addGifFrames has settled: progressCallback, setTimeout(0), next batch *)
ExAdded ==
    /\ UNCHANGED <<exceptExport, hostVars, wk, venc>>
    /\ ex.pc = "adding" /\ ex.ret # "none"
    /\ ex' = IF ex.ret = "ok" /\ ~ex.aborted
             THEN [ex EXCEPT !.pc = "batch", !.ret = "none", !.i = ex.i + MainBatchSize]
             ELSE IF ex.aborted THEN FallBack(ThrowAbortError(ex))
             ELSE FallBack(ex)

(* finalizeGif has settled: a call that resolved is followed by the test of *)
(* abortSignal.aborted, a call that rejected goes to the catch at once      *)
ExFinalized ==
    /\ UNCHANGED <<exceptExport, hostVars, wk, venc>>
    /\ ex.pc = "finalizing"
    /\ ex' = IF ex.ret = "ok" /\ ~ex.aborted
             THEN [ex EXCEPT !.pc = "done", !.ret = "none", !.outcome = "blob",
                             !.data = host.heap[Len(host.heap)].frames]
             ELSE IF ex.aborted /\ ex.ret \in {"ok", "invalid_gif"}
             THEN FallBack(ThrowAbortError(ex))
             ELSE FallBack(ex)

(* the worker path of encodeGIF: new Worker, the 'init' message *)
ExWorkerInit ==
    /\ UNCHANGED <<exceptExport, hostVars, venc>>
    /\ ex.pc = "worker"
    /\ ex' = [ex EXCEPT !.pc = "wait", !.path = "worker", !.i = 0]
    /\ wk' = [IdleWorker EXCEPT !.alive = TRUE, !.log = <<<<"init", 0>>>>,
                                !.inbox = <<[type |-> "init", frames |-> <<>>]>>]

(* the worker's onmessage (src/unnamed/part_002:711-831) on the frames it  *)
(* is sent                                                                 *)
ExWorker ==
    /\ UNCHANGED <<exceptExport, hostVars, venc, ex>>
    /\ wk.alive /\ wk.inbox # <<>>
    /\ LET m == Head(wk.inbox)
           w == [wk EXCEPT !.inbox = Tail(@)]
           posts(v, type, frames) ==
               [v EXCEPT !.outbox = Append(@, [type |-> type, frames |-> frames]),
                         !.log = Append(@, <<type, 0>>)]
       IN  wk' = IF m.type = "init"
                 THEN posts([w EXCEPT !.encoder = [frames |-> <<>>]], "ready", <<>>)
                 ELSE IF m.type = "abort"
                 THEN posts([w EXCEPT !.encoder = NULL], "error", <<>>)
                 ELSE IF w.encoder = NULL
                 THEN posts(w, "error", <<>>)
                 ELSE IF m.type = "frames"
                 THEN posts([w EXCEPT !.encoder.frames = @ \o m.frames], "progress", <<>>)
                 ELSE posts([w EXCEPT !.encoder = NULL], "complete", w.encoder.frames)

(* a sender that posts 'finish' together with the last batch, without      *)
(* waiting for the worker's reply to it                                    *)
sendFinishWithLastBatch(e, w) ==
    IF e.aborted
    THEN [ex |-> [ThrowAbortError(e) EXCEPT !.pc = "done", !.outcome = "AbortError"],
          wk |-> [w EXCEPT !.alive = FALSE, !.log = Append(@, <<"abort", 0>>)]]
    ELSE IF e.i < e.n
    THEN LET batch == BatchOf(e.i, e.n, WorkerBatchSize)
             last == e.i + Len(batch) = e.n
         IN  [ex |-> [e EXCEPT !.i = e.i + Len(batch) + (IF last THEN 1 ELSE 0)],
              wk |-> [w EXCEPT
                        !.inbox = Append(@, [type |-> "frames", frames |-> batch])
                                    \o (IF last THEN <<[type |-> "finish", frames |-> <<>>]>>
                                         ELSE <<>>),
                        !.log = Append(@, <<"frames", Len(batch)>>)
                                    \o (IF last THEN <<<<"finish", 0>>>> ELSE <<>>)]]
    ELSE [ex |-> e, wk |-> w]

(* sendNextBatch of encodeGIF; returns the export and the worker after it *)
sendNextBatch(e, w) ==
    IF e.aborted
    THEN [ex |-> [ThrowAbortError(e) EXCEPT !.pc = "done", !.outcome = "AbortError"],
          wk |-> [w EXCEPT !.alive = FALSE, !.log = Append(@, <<"abort", 0>>)]]
    ELSE IF e.i < e.n
    THEN LET batch == BatchOf(e.i, e.n, WorkerBatchSize)
         IN  [ex |-> [e EXCEPT !.i = e.i + Len(batch)],
              wk |-> [w EXCEPT !.inbox = Append(@, [type |-> "frames", frames |-> batch]),
                               !.log = Append(@, <<"frames", Len(batch)>>)]]
    ELSE IF e.i = e.n
    THEN [ex |-> [e EXCEPT !.i = e.i + 1],
          wk |-> [w EXCEPT !.inbox = Append(@, [type |-> "finish", frames |-> <<>>]),
                           !.log = Append(@, <<"finish", 0>>)]]
    ELSE [ex |-> e, wk |-> w]

(* worker.onmessage of encodeGIF; a progressCallback that throws leaves the *)
(* promise unsettled                                                       *)
ExOnMessage ==
    /\ UNCHANGED <<exceptExport, hostVars, venc>>
    /\ ex.pc = "wait" /\ wk.alive /\ wk.outbox # <<>>
    /\ LET m == Head(wk.outbox)
           w == [wk EXCEPT !.outbox = Tail(@)]
           after == IF m.type = "ready" THEN sendNextBatch(ex, w)
                    ELSE IF m.type = "progress"
                    THEN IF ex.aborted
                         THEN [ex |-> [ex EXCEPT !.pc = "hung"], wk |-> w]
                         ELSE sendNextBatch(ex, w)
                    ELSE IF m.type = "complete"
                    THEN [ex |-> [ex EXCEPT !.pc = "done", !.outcome = "blob",
                                            !.data = m.frames],
                          wk |-> [w EXCEPT !.alive = FALSE]]
                    ELSE [ex |-> [ex EXCEPT !.pc = "done", !.outcome = "error"],
                          wk |-> [w EXCEPT !.alive = FALSE]]
       IN  ex' = after.ex /\ wk' = after.wk

(* video:createMuxer, video:addChunk and video:finalize                    *)
(* (src/src/main.js:206-303); accepted is whether addVideoChunkRaw returns *)
video_createMuxer(h) == [h EXCEPT !.muxers = (h.now :> <<>>) @@ @]
video_addChunk(h, muxerId, chunk, accepted) ==
    IF muxerId \in DOMAIN h.muxers /\ accepted
    THEN [h EXCEPT !.muxers[muxerId] = Append(@, chunk)]
    ELSE h
video_finalize(h, muxerId) == [h EXCEPT !.muxers = Unregister(@, muxerId)]

(* encodeVideoWebCodecs up to the encode loop: createVideoMuxer *)
ExStartVideo ==
    /\ UNCHANGED <<exceptExport, hostReply, terminated, wk, venc>>
    /\ ex.pc = "start" /\ ex.kind = "mp4"
    /\ host' = video_createMuxer(host)
    /\ ex' = [ex EXCEPT !.pc = "encode", !.id = host.now, !.path = "webcodecs"]

(* encodeAllFrames from one setTimeout(0) to the next: frames i .. k, where *)
(* k is the first index from i that is a multiple of 10, or the last frame *)
ExEncode ==
    /\ UNCHANGED <<exceptExport, hostVars, wk>>
    /\ ex.pc = "encode"
    /\ IF ex.aborted
       THEN /\ ex' = [ex EXCEPT !.pc = IF ex.i < ex.n THEN "abort_flush" ELSE "done",
                                !.outcome = IF ex.i < ex.n THEN "none" ELSE "Aborted by user"]
            /\ UNCHANGED venc
       ELSE IF ex.i < ex.n
       THEN LET k == Min(ex.n - 1, ((ex.i + 9) \div 10) * 10)
                run == FrameRange(ex.i, k + 1)
            IN  /\ venc' = [venc EXCEPT !.frames = @ \o run, !.pending = @ \o run]
                /\ ex' = [ex EXCEPT !.i = k + 1,
                                    !.pc = IF k % 10 = 0 THEN "encode" ELSE "flush"]
       ELSE /\ ex' = [ex EXCEPT !.pc = "flush"]
            /\ UNCHANGED venc

(* the VideoEncoder calls its output callback for the next chunk: the     *)
(* callback runs to its await, where the addVideoChunk call is on its way  *)
(* to the host; the encoder does not wait for the promise it returns       *)
ExOutput ==
    /\ UNCHANGED <<exceptExport, hostVars, wk, ex>>
    /\ ex.pc \in {"encode", "flush", "abort_flush"} /\ venc.pending # <<>>
    /\ venc' = [venc EXCEPT !.pending = Tail(@), !.inflight = Append(@, Head(venc.pending))]

(* the host handles the oldest addVideoChunk call and the callback that    *)
(* awaits it runs on; a rejection is caught and logged                     *)
ExChunkAdded ==
    /\ UNCHANGED <<exceptExport, hostReply, terminated, wk>>
    /\ venc.inflight # <<>>
    /\ \E accepted \in BOOLEAN :
           /\ accepted \/ ex.rejected < MaxRejects
           /\ host' = video_addChunk(host, ex.id, Head(venc.inflight), accepted)
           /\ ex' = [ex EXCEPT !.rejected =
                        IF host' = host THEN @ + 1 ELSE @]
    /\ venc' = [venc EXCEPT !.inflight = Tail(@)]

(* encoder.flush() has resolved: close, and on the abort path reject *)
ExFlushed ==
    /\ UNCHANGED <<exceptExport, hostVars, wk, venc>>
    /\ ex.pc \in {"flush", "abort_flush"} /\ venc.pending = <<>>
    /\ ex' = IF ex.pc = "flush" THEN [ex EXCEPT !.pc = "settle"]
             ELSE [ex EXCEPT !.pc = "done", !.outcome = "Aborted by user"]

(* after the 100 ms wait: progressCallback(98), finalizeVideo, which the  *)
(* host handles after the addVideoChunk calls sent before it               *)
ExFinalizeVideo ==
    /\ UNCHANGED <<exceptExport, hostReply, terminated, wk, venc>>
    /\ ex.pc = "settle" /\ venc.inflight = <<>>
    /\ IF ex.aborted
       THEN /\ ex' = [ex EXCEPT !.pc = "done", !.outcome = "Aborted by user"]
            /\ UNCHANGED host
       ELSE IF ex.id \notin DOMAIN host.muxers
       THEN /\ ex' = [ex EXCEPT !.pc = "done", !.outcome = "error"]
            /\ UNCHANGED host
       ELSE /\ ex' = [ex EXCEPT !.pc = "finalized", !.data = host.muxers[ex.id]]
            /\ host' = video_finalize(host, ex.id)

(* finalizeVideo has settled: progressCallback(100), resolve(blob) *)
ExVideoFinalized ==
    /\ UNCHANGED <<exceptExport, hostVars, wk, venc>>
    /\ ex.pc = "finalized"
    /\ ex' = [ex EXCEPT !.pc = "done",
                        !.outcome = IF ex.aborted THEN "Aborted by user" ELSE "blob"]

NextExport ==
    \/ ExAbort \/ ExStartGif \/ ExBatch \/ ExHostResume \/ ExHostCancel \/ ExAdded
    \/ ExFinalized \/ ExWorkerInit \/ ExWorker \/ ExOnMessage
    \/ ExStartVideo \/ ExEncode \/ ExOutput \/ ExChunkAdded \/ ExFlushed
    \/ ExFinalizeVideo
    \/ ExVideoFinalized

(* the frames the encoder of the finished export was given *)
Submitted ==
    IF ex.path = "webcodecs" THEN venc.frames ELSE ex.data

(* C3: an export that completes has given its encoder every frame once, in *)
(* the order of the frames                                                 *)
C3_EachFrameOnceInOrder ==
    ex.outcome = "blob" => Submitted = FrameRange(0, ex.n)

(* a GIF export of more than one batch has completed on the worker after   *)
(* the main-process path had sent frames and failed                        *)
C3_Witness ==
    /\ ex.outcome = "blob" /\ ex.path = "worker" /\ ex.n > MainBatchSize
    /\ host.heap # <<>> /\ Len(host.heap[1].frames) > 0

(* C14: once a cancelled export has returned and the gif:cancel calls it   *)
(* sent have been handled, the host's handle maps hold no entry for it:    *)
(* its GIF encoder and its MP4 muxer are unregistered                      *)
C14_CancelUnregisters ==
    (/\ ex.pc = "done" /\ ex.aborted
     /\ ex.outcome \in {"AbortError", "Aborted by user"}
     /\ ex.cancels = 0 /\ ex.id # NoValue) =>
        /\ ex.id \notin DOMAIN host.gifEncoders
        /\ ex.id \notin DOMAIN host.muxers

(* C21: once a GIF export has seen the cancellation, no encoder is created *)
(* or initialised for it: no worker is started and no worker encoder set up *)
C21_NoRetryAfterCancel ==
    [][(ex.kind = "gif" /\ ex.sawAbort) =>
           /\ wk'.alive => wk.alive
           /\ wk'.encoder # NULL => wk.encoder # NULL
           /\ Len(host'.heap) = Len(host.heap)]_vars

(* C19: no two add-frame calls for one encoder handle are in flight at     *)
(* once: of the addGifFrames calls of a handle, and of the addVideoChunk   *)
(* calls of a muxer, at most one has been issued and has not completed     *)
C19_OneAddInFlight ==
    /\ Len(venc.inflight) <= 1
    /\ \A e \in DOMAIN host.heap :
           Cardinality({ k \in DOMAIN host.calls : host.calls[k].encoder = e }) <= 1

(* C9: an export that returns an output has had no chunk rejected by the   *)
(* host                                                                    *)
C9_NoSilentDrop ==
    (ex.path = "webcodecs" /\ ex.outcome = "blob") => ex.rejected = 0

(***************************************************************************)
(* The renderer (src/src/renderer/renderer.js): the fields of its state    *)
(* object that loading, clearing, background extraction, conversion and    *)
(* the Abort button share, and the async functions that are running.       *)
(*                                                                         *)
(* state.frameCache is null or names the file its frames were extracted    *)
(* from; state.abortController is null or the index of an AbortController  *)
(* in controllers, which holds each signal's aborted flag; state.metadata  *)
(* is the video whose onloadedmetadata handler has yet to run;             *)
(* state.animationEncoder is null or the length of the encoder's frames.   *)
(* jobs are the running startBackgroundProcessing and convert calls: where *)
(* each is (pc), the source it works for (src: the file that was current   *)
(* when it began, and for a background job the file it read when it woke), *)
(* the controller it created, whose signal its extraction was handed       *)
(* (sig), the frames it has converted (i) and how many of them it          *)
(* converted after sig was aborted (late).  rlog is what   *)
(* the step just taken reported: which kind of job ended in it, how, why,  *)
(* and with which late; nothing when no job ended in it.                   *)
(***************************************************************************)
MaxJobs == 2
ClipFrames == 2

Files == { [name |-> "clip.mp4", isGif |-> FALSE], [name |-> "anim.gif", isGif |-> TRUE] }

NoReport == [kind |-> "none", outcome |-> "none", cause |-> "none", late |-> 0]

Report(kind, outcome, cause, late) ==
    [kind |-> kind, outcome |-> outcome, cause |-> cause, late |-> late]

IdleRenderer ==
    /\ state = [currentFile |-> NULL, frameCache |-> NULL, backgroundProcessing |-> FALSE,
                abortController |-> NoValue, animationEncoder |-> NoValue,
                metadata |-> NULL]
    /\ controllers = <<>>
    /\ jobs = <<>>
    /\ rlog = NoReport

(* new AbortController(): its index *)
NewController == Len(controllers) + 1

Job(kind, pc, src, sig) ==
    [kind |-> kind, pc |-> pc, src |-> src, sig |-> sig, i |-> 0, late |-> 0]

WithoutJob(k) == [j \in 1..(Len(jobs) - 1) |-> jobs[IF j < k THEN j ELSE j + 1]]

(* The controllers something still refers to, and a controller's index     *)
(* once those that nothing refers to have been collected.                  *)
Referenced(st, js) == ({st.abortController} \cup {js[k].sig : k \in DOMAIN js}) \ {NoValue}

Renumbered(R, c) == IF c = NoValue THEN NoValue ELSE Cardinality({r \in R : r <= c})

(* The running jobs are a collection without an order: jobs lists them in  *)
(* the order of these keys.                                                *)
FileKey(f) == IF f = NULL THEN 0 ELSE IF f.isGif THEN 2 ELSE 1

PcKey(pc) == CASE pc = "sleep" -> 0 [] pc = "extract" -> 1 [] pc = "wait50" -> 2 [] pc = "loop" -> 3

JobKey(j) ==
    LET d == ClipFrames + 2
        kindKey == IF j.kind = "background" THEN 0 ELSE 1
    IN  ((((kindKey * 4 + PcKey(j.pc)) * 3 + FileKey(j.src)) * d + j.i) * d + j.late)
            * (MaxJobs + 3) + (j.sig + 1)

(* the state a step leaves: st, ctl and js without the garbage *)
Commit(st, ctl, js) ==
    LET R == Referenced(st, js)
        renumbered == [k \in DOMAIN js |-> [js[k] EXCEPT !.sig = Renumbered(R, @)]]
    IN  /\ controllers' = [n \in 1..Cardinality(R) |->
                              ctl[CHOOSE r \in R : Renumbered(R, r) = n]]
        /\ state' = [st EXCEPT !.abortController = Renumbered(R, @)]
        /\ jobs' = SortSeq(renumbered, LAMBDA a, b : JobKey(a) < JobKey(b))

(* job k returns or throws; a background job's last lines run as well *)
Ends(k, outcome, cause, st, late) ==
    /\ rlog' = Report(jobs[k].kind, outcome, cause, late)
    /\ Commit(IF jobs[k].kind = "background"
              THEN [st EXCEPT !.backgroundProcessing = FALSE, !.abortController = NoValue]
              ELSE st,
              controllers, WithoutJob(k))

(* loadFile's reader.onload or loadFileFromResult, then displayPreview *)
RLoad ==
    /\ UNCHANGED <<exceptRenderer, controllers, jobs>>
    /\ rlog' = NoReport
    /\ \E file \in Files :
           state' = [state EXCEPT !.currentFile = file,
                                  !.metadata = IF file.isGif THEN @ ELSE file]

(* videoPreview.onloadedmetadata, which calls startBackgroundProcessing up *)
(* to its setTimeout(500)                                                  *)
ROnLoadedMetadata ==
    /\ UNCHANGED exceptRenderer
    /\ rlog' = NoReport
    /\ state.metadata # NULL
    /\ IF state.backgroundProcessing
       THEN Commit([state EXCEPT !.metadata = NULL], controllers, jobs)
       ELSE /\ Len(jobs) < MaxJobs
            /\ Commit([state EXCEPT !.metadata = NULL, !.backgroundProcessing = TRUE],
                      controllers,
                      Append(jobs, Job("background", "sleep", state.currentFile, NoValue)))

(* startBackgroundProcessing after the 500 ms: a new controller goes into  *)
(* state and the extraction starts, of the GIF that is current or of the   *)
(* video element (empty after clearInput)                                  *)
RBackgroundWake ==
    /\ UNCHANGED exceptRenderer
    /\ rlog' = NoReport
    /\ \E k \in DOMAIN jobs :
           /\ jobs[k].kind = "background" /\ jobs[k].pc = "sleep"
           /\ Commit([state EXCEPT !.abortController = NewController],
                     Append(controllers, FALSE),
                     [jobs EXCEPT ![k] = [@ EXCEPT !.pc = "extract", !.src = state.currentFile,
                                                  !.sig = NewController]])

(* the background extraction settles: the cache is written when it has not *)
(* been aborted; an abort of a GIF extraction is an Error named 'Error'    *)
RBackgroundExtracted ==
    /\ UNCHANGED exceptRenderer
    /\ \E k \in DOMAIN jobs :
           /\ jobs[k].kind = "background" /\ jobs[k].pc = "extract"
           /\ IF jobs[k].src = NULL
              THEN Ends(k, "failed", "no video", state, 0)
              ELSE IF controllers[jobs[k].sig]
              THEN Ends(k, IF jobs[k].src.isGif THEN "failed" ELSE "canceled", "abort", state, 0)
              ELSE Ends(k, "done", "none", [state EXCEPT !.frameCache = jobs[k].src], 0)

(* clearInput: the Clear button or Escape *)
RClear ==
    /\ UNCHANGED <<exceptRenderer, controllers, jobs>>
    /\ rlog' = NoReport
    /\ state' = [state EXCEPT !.currentFile = NULL, !.frameCache = NULL,
                              !.animationEncoder = NoValue, !.backgroundProcessing = FALSE,
                              !.metadata = NULL]

(* the Abort button *)
RAbort ==
    /\ UNCHANGED <<exceptRenderer, state, jobs>>
    /\ rlog' = NoReport
    /\ state.abortController # NoValue
    /\ controllers' = [controllers EXCEPT ![state.abortController] = TRUE]

(* convert(), from the Convert button or the Enter key, and convertVideo   *)
(* up to its first await: the 50 ms wait before the cached frames are      *)
(* converted, or the extraction; fpsOk is cachedFPS >= requestedFPS        *)
RConvert ==
    /\ UNCHANGED exceptRenderer
    /\ state.currentFile # NULL
    /\ LET st == [state EXCEPT !.abortController = NewController, !.animationEncoder = 0]
           file == state.currentFile
       IN  IF state.frameCache # NULL
           THEN \E fpsOk \in BOOLEAN :
                    IF fpsOk
                    THEN /\ Len(jobs) < MaxJobs
                         /\ rlog' = NoReport
                         /\ Commit(st, Append(controllers, FALSE),
                                   Append(jobs, Job("convert", "wait50", file, NewController)))
                    ELSE /\ rlog' = Report("convert", "failed", "cache", 0)
                         /\ Commit(st, Append(controllers, FALSE), jobs)
           ELSE IF file.isGif
           THEN /\ Len(jobs) < MaxJobs
                /\ rlog' = NoReport
                /\ Commit([st EXCEPT !.abortController = NewController + 1],
                          controllers \o <<FALSE, FALSE>>,
                          Append(jobs, Job("convert", "extract", file, NewController + 1)))
           ELSE /\ Len(jobs) < MaxJobs
                /\ rlog' = NoReport
                /\ Commit(st, Append(controllers, FALSE),
                          Append(jobs, Job("convert", "extract", file, NewController)))

(* the frames job k converts before its next setTimeout(0): frame i, and   *)
(* the frames after it up to the next one with i % 10 = 0                  *)
LastBeforeYield(i) == IF i >= ClipFrames - 1 \/ (i % 10) = 0 THEN i ELSE ClipFrames - 1

(* one run of a conversion loop of job k from frame jobs[k].i, in state   *)
(* s: a loop that starts empties state.animationEncoder.frames, and every  *)
(* frame converted is pushed onto it                                       *)
RunLoop(k, s) ==
    LET j == jobs[k]
        last == LastBeforeYield(j.i)
        late == j.late + (IF controllers[j.sig] THEN last + 1 - j.i ELSE 0)
        st == IF j.pc = "loop" \/ s.animationEncoder = NoValue THEN s
              ELSE [s EXCEPT !.animationEncoder = 0]
        pushed == [st EXCEPT !.animationEncoder = @ + last + 1 - j.i]
    IN  IF j.i >= ClipFrames
        THEN Ends(k, "done", "none", st, j.late)
        ELSE IF st.abortController = NoValue \/ st.animationEncoder = NoValue
        THEN Ends(k, "failed", "TypeError", st, j.late)
        ELSE IF controllers[st.abortController]
        THEN Ends(k, "canceled", "abort", st, j.late)
        ELSE IF last = ClipFrames - 1 /\ (last % 10) # 0
        THEN Ends(k, "done", "none", pushed, late)
        ELSE /\ rlog' = NoReport
             /\ Commit(pushed, controllers,
                       [jobs EXCEPT ![k] = [@ EXCEPT !.pc = "loop", !.i = last + 1,
                                                    !.late = late]])

(* convertVideo resumes after the 50 ms wait or after a loop's yield *)
RConvertStep ==
    /\ UNCHANGED exceptRenderer
    /\ \E k \in DOMAIN jobs :
           /\ jobs[k].kind = "convert" /\ jobs[k].pc \in {"wait50", "loop"}
           /\ RunLoop(k, state)

(* the extraction convertVideo awaits settles.  A GIF extraction that was  *)
(* aborted rejects with Error('AbortError'), whose name is 'Error'; the    *)
(* VideoExtractor rejects with an error named 'AbortError', and its        *)
(* progress callback reads state.abortController afresh.  Otherwise the    *)
(* frames are cached and their loop starts.                                *)
RConvertExtracted ==
    /\ UNCHANGED exceptRenderer
    /\ \E k \in DOMAIN jobs :
           /\ jobs[k].kind = "convert" /\ jobs[k].pc = "extract"
           /\ IF jobs[k].src.isGif
              THEN IF controllers[jobs[k].sig]
                   THEN Ends(k, "failed", "abort", state, 0)
                   ELSE RunLoop(k, [state EXCEPT !.frameCache = jobs[k].src])
              ELSE IF controllers[jobs[k].sig]
                   THEN Ends(k, "canceled", "abort", state, 0)
                   ELSE IF state.abortController = NoValue
                   THEN Ends(k, "failed", "TypeError", state, 0)
                   ELSE IF controllers[state.abortController]
                   THEN Ends(k, "canceled", "abort", state, 0)
                   ELSE RunLoop(k, [state EXCEPT !.frameCache = jobs[k].src])

NextRenderer ==
    \/ RLoad
    \/ ROnLoadedMetadata
    \/ RBackgroundWake
    \/ RBackgroundExtracted
    \/ RClear
    \/ RAbort
    \/ RConvert
    \/ RConvertStep
    \/ RConvertExtracted

(* C6: once a conversion's abort signal has been raised, convertVideo      *)
(* converts no further frame: no conversion, running or just ended, has    *)
(* converted a frame after the controller it created was aborted.          *)
C6_NoFrameAfterAbort ==
    /\ \A k \in DOMAIN jobs : jobs[k].late = 0
    /\ rlog.late = 0

(* C7: the frame cache only holds frames of the currently loaded source.   *)
C7_CacheOfCurrentSource ==
    state.frameCache # NULL => state.frameCache = state.currentFile

(* C8: at most one extraction/conversion job is active for a source at any *)
(* time.                                                                   *)
C8_OneJobPerSource ==
    \A j, k \in DOMAIN jobs : jobs[j].src = jobs[k].src => j = k

(* C15: when a conversion has ended cancelled, the application state       *)
(* holds no partially converted frame list: state.animationEncoder is null *)
(* or its frames are empty                                                 *)
C15_NoPartialFrames ==
    (rlog.kind = "convert" /\ rlog.outcome = "canceled") =>
        state.animationEncoder \in {NoValue, 0}

(* C10: a conversion that ends because of a cancellation ends without      *)
(* reporting a failure.                                                    *)
C10_CancelIsNotFailure ==
    (rlog.kind = "convert" /\ rlog.cause = "abort") => rlog.outcome = "canceled"

(* C33: when the cached frames were extracted at a lower rate than the     *)
(* requested one, convertVideo re-extracts at the requested rate and       *)
(* completes the conversion instead of ending with an error                *)
C33_ReextractsOnLowerRate ==
    ~(rlog.kind = "convert" /\ rlog.outcome = "failed" /\ rlog.cause = "cache")

(* C36: whenever a running conversion loop is about to read                *)
(* state.abortController.signal, state.abortController is non-null and is  *)
(* the controller created for that conversion                              *)
C36_LoopReadsOwnController ==
    \A k \in DOMAIN jobs :
        (jobs[k].kind = "convert" /\ jobs[k].pc \in {"wait50", "loop"}
             /\ jobs[k].i < ClipFrames)
            => state.abortController = jobs[k].sig

(* the messages of the log of the given types *)
LogOf(log, types) == SelectSeq(log, LAMBDA m : m[1] \in types)

RECURSIVE FramesIn(_)
(* the number of frames the messages of log held *)
FramesIn(log) == IF log = <<>> THEN 0 ELSE log[1][2] + FramesIn(Tail(log))

(* C37: in the worker GIF path at most one message to the worker is        *)
(* unanswered at any time, 'finish' is sent at most once, only after every *)
(* frame has been sent and with no frames after it, it has been sent       *)
(* exactly once when the export resolves, and the worker posts 'complete'  *)
(* at most once                                                            *)
C37_WorkerProtocol ==
    LET log == wk.log
        sent == LogOf(log, {"init", "frames", "finish"})
        replies == LogOf(log, {"ready", "progress", "complete", "error"})
    IN  /\ Len(sent) - Len(replies) \in {0, 1}
        /\ Len(wk.inbox) + Len(wk.outbox) <= 1
        /\ Len(LogOf(log, {"finish"})) <= 1
        /\ Len(LogOf(log, {"complete"})) <= 1
        /\ \A p \in DOMAIN log :
               log[p][1] = "finish" =>
                   /\ FramesIn(SubSeq(log, 1, p - 1)) = ex.n
                   /\ \A q \in (p + 1)..Len(log) : log[q][1] # "frames"
        /\ (ex.path = "worker" /\ ex.outcome = "blob") =>
               /\ Len(LogOf(log, {"finish"})) = 1
               /\ Len(ex.data) = ex.n

(* an export of more frames than two batches hold that the worker path     *)
(* has resolved                                                            *)
C37_Witness ==
    /\ ex.path = "worker" /\ ex.outcome = "blob" /\ ex.n > 2 * WorkerBatchSize
    /\ Len(LogOf(wk.log, {"frames"})) >= 3

(***************************************************************************)
(* SpecLZW: one LZWEncoder over every small image.                         *)
(***************************************************************************)
PixelArrays(n) == [1..n -> PixelValues]

InitLZW ==
    \E w \in 1..MaxSide, h \in 1..MaxSide :
        \E px \in PixelArrays(w * h) :
            lzw = LZWEncoder(w, h, px, colorDepthGIF)

LzwEncodeBegin ==
    /\ UNCHANGED exceptLZW
    /\ lzw.pc = "new"
    /\ lzw' = EncodeBegin(lzw)

LzwCompressStep ==
    /\ UNCHANGED exceptLZW
    /\ lzw.pc = "loop"
    /\ HasNextPixel(lzw)
    /\ lzw' = CompressStep(lzw)

LzwEncodeEnd ==
    /\ UNCHANGED exceptLZW
    /\ lzw.pc = "loop"
    /\ ~HasNextPixel(lzw)
    /\ lzw' = EncodeEnd(lzw)

NextLZW == LzwEncodeBegin \/ LzwCompressStep \/ LzwEncodeEnd

(* C5: decoding the sub-blocks that encode has written yields the pixels *)
C5_RoundTrip ==
    lzw.pc = "done" => LZWDecode(lzw.outs) = lzw.pixels

RECURSIVE WellFormedBlocks(_, _)
(* from position p on, bytes is a run of sub-blocks with a length byte in  *)
(* 1..255 each, then the zero-length sub-block, then nothing               *)
WellFormedBlocks(bytes, p) ==
    /\ p <= Len(bytes)
    /\ IF bytes[p] = 0 THEN p = Len(bytes)
       ELSE /\ bytes[p] \in 1..255
            /\ p + bytes[p] < Len(bytes)
            /\ WellFormedBlocks(bytes, p + bytes[p] + 1)

(* C18: when encode returns, no byte is left in the accumulator buffer and *)
(* no bit in cur_accum, every sub-block has a length byte in 1..255 and    *)
(* the stream ends with a zero-length sub-block                            *)
C18_AllCodesWritten ==
    lzw.pc = "done" =>
        /\ Len(lzw.accum) = 0
        /\ lzw.cur_bits = 0
        /\ WellFormedBlocks(lzw.outs, 2)

(***************************************************************************)
(* ASCIIConverter (src/unnamed/part_001:1-330): convertImageData draws a   *)
(* source of originalWidth x originalHeight scaled onto a canvas of        *)
(* options.width columns and processPixels turns the canvas into glyphs.   *)
(*                                                                         *)
(* cv is one conversion: this.options, the size of the source, the pixel   *)
(* the scaled canvas is filled with, and the value returned or the error   *)
(* thrown.  The numbers of the source are doubles; the model computes with *)
(* exact fractions num / den (den > 0), which agree with the doubles on    *)
(* the inputs below where a result is compared for equality: a source      *)
(* width that is a power of two, and a contrast factor of exactly 1.       *)
(***************************************************************************)
Frac(num, den) == [num |-> num, den |-> den]

RECURSIVE GCD(_, _)
GCD(a, b) == IF b = 0 THEN a ELSE GCD(b, a % b)

(* num / den in lowest terms, for num > 0 and den > 0 *)
Reduced(num, den) == Frac(num \div GCD(num, den), den \div GCD(num, den))

(* Math.floor and Math.round of a fraction that is not negative *)
Floor(q) == q.num \div q.den
Round(q) == (2 * q.num + q.den) \div (2 * q.den)

(* a contrast curve whose neutral point is 128 *)
contrastFactorAbout128(contrast) ==
    Reduced(259 * (contrast + 127), 255 * (387 - contrast))

(* (259 * (contrast + 255)) / (255 * (259 - contrast)), 0 <= contrast <=    *)
(* 259; the division by zero at contrast = 259 gives Infinity, the         *)
(* fraction 1 / 0                                                          *)
contrastFactor(contrast) ==
    Reduced(259 * (contrast + 255), 255 * (259 - contrast))

(* one channel of processPixels: the brightness scale, the contrast curve  *)
(* and the clamp to 0..255                                                 *)
(* Infinity * (adjusted - 128) + 128 is Infinity, -Infinity, or NaN where   *)
(* adjusted is 128, and Math.max(0, Math.min(255, NaN)) is NaN             *)
NaN == Frac(0, 0)

adjustPixel(value, options) ==
    LET brightness == Reduced(options.brightness, 100)
        f == contrastFactor(options.contrast)
        den == brightness.den * f.den
        num == f.num * (value * brightness.num - 128 * brightness.den) + 128 * den
    IN  IF f.den = 0
        THEN (IF num > 0 THEN Frac(255, 1) ELSE IF num < 0 THEN Frac(0, 1) ELSE NaN)
        ELSE IF num < 0 THEN Frac(0, den)
        ELSE IF num > 255 * den THEN Frac(255 * den, den)
        ELSE Frac(num, den)

(* 0.299 * r + 0.587 * g + 0.114 * b of three channels over one            *)
(* denominator, as thousandths: whole + part / den, 0 <= part < 1000 * den; *)
(* NaN (den = 0) when a channel is NaN                                     *)
rgbToGray(r, g, b) ==
    IF NaN \in {r, g, b} THEN [whole |-> 0, part |-> 0, den |-> 0]
    ELSE
    [whole |-> 299 * (r.num \div r.den) + 587 * (g.num \div g.den)
                   + 114 * (b.num \div b.den),
     part |-> 299 * (r.num % r.den) + 587 * (g.num % g.den) + 114 * (b.num % b.den),
     den |-> r.den]

(* Math.round of a channel and of a luminance; Math.round(NaN) is NaN *)
RoundChannel(q) == IF q = NaN THEN "NaN" ELSE Round(q)
RoundGray(gray) ==
    IF gray.den = 0 THEN "NaN"
    ELSE (gray.whole + 500 + gray.part \div gray.den) \div 1000

(* CHARSETS.standard *)
standard == <<"@", "%", "#", "*", "+", "=", "-", ":", ".", " ">>

(* the other entries of CHARSETS; a character outside ASCII is named by    *)
(* its code point                                                          *)
detailed ==
    <<"$", "@", "B", "%", "8", "&", "W", "M", "#", "*", "o", "a", "h", "k",
      "b", "d", "p", "q", "w", "m", "Z", "O", "0", "Q", "L", "C", "J", "U",
      "Y", "X", "z", "c", "v", "u", "n", "x", "r", "j", "f", "t", "/",
      "\\", "|", "(", ")", "1", "{", "}", "[", "]", "?", "-", "_", "+",
      "~", "<", ">", "i", "!", "l", "I", ";", ":", ",", "\"", "^", "`",
      "'", ".", " ">>

blocks ==
    <<"U+2588", "U+2593", "U+2592", "U+2591", " ">>

simple ==
    <<"#", ".", " ">>

binary ==
    <<"0", "1">>

braille ==
    <<"U+28FF", "U+28F7", "U+28F6", "U+28E6", "U+28E4", "U+28C4", "U+2844",
      "U+2840", " ">>

dots ==
    <<"U+283F", "U+283E", "U+283C", "U+2838", "U+2830", "U+2820", "U+2800">>

(* ASCIIConverter.CHARSETS[name], NULL for a name that is no entry *)
CHARSETS(name) ==
    IF name = "standard" THEN standard
    ELSE IF name = "detailed" THEN detailed
    ELSE IF name = "blocks" THEN blocks
    ELSE IF name = "simple" THEN simple
    ELSE IF name = "binary" THEN binary
    ELSE IF name = "braille" THEN braille
    ELSE IF name = "dots" THEN dots
    ELSE NULL

(* getCharset: a customCharset of null or '' is the empty sequence *)
getCharset(options) ==
    IF options.customCharset # <<>> THEN options.customCharset
    ELSE IF CHARSETS(options.charset) # NULL THEN CHARSETS(options.charset)
    ELSE standard

(* charset[i] of JavaScript: undefined where the string has no character *)
At(charset, i) == IF i + 1 \in DOMAIN charset THEN charset[i + 1] ELSE "undefined"

(* an index that scales by the length of the charset and is not clamped *)
indexByLength(gray, last, invert) ==
    IF invert
    THEN (gray.whole * (last + 1) + (gray.part * (last + 1)) \div gray.den) \div 255000
    ELSE ((255000 - gray.whole) * (last + 1)
              - (gray.part * (last + 1) + gray.den - 1) \div gray.den) \div 255000

(* the index brightnessToChar selects for a luminance in 0..255:            *)
(* Math.floor(n * last) or Math.floor((1 - n) * last) for n = gray / 255,  *)
(* clamped to 0..last; the products are exact here, a double can fall one  *)
(* glyph lower where the exact product is a whole number                   *)
charIndex(gray, last, invert) ==
    LET up == (gray.whole * last + (gray.part * last) \div gray.den) \div 255000
        down == ((255000 - gray.whole) * last
                     - (gray.part * last + gray.den - 1) \div gray.den) \div 255000
        index == IF invert THEN up ELSE down
    IN  IF index < 0 THEN 0 ELSE IF index > last THEN last ELSE index

(* brightnessToChar: the glyph of a luminance; the index of a NaN          *)
(* luminance is NaN, where a string has no character                       *)
brightnessToChar(gray, options) ==
    LET charset == getCharset(options)
    IN  IF gray.den = 0 THEN "undefined"
        ELSE At(charset, charIndex(gray, Len(charset) - 1, options.invert))

(* s.join(sep) of a sequence of sequences *)
RECURSIVE join(_, _)
join(s, sep) ==
    IF s = <<>> THEN <<>>
    ELSE IF Len(s) = 1 THEN s[1]
    ELSE s[1] \o sep \o join(Tail(s), sep)

(* processPixels on a canvas of width x height filled with one pixel *)
processPixels(pixel, width, height, options) ==
    LET r == adjustPixel(pixel[1], options)
        g == adjustPixel(pixel[2], options)
        b == adjustPixel(pixel[3], options)
        grayscale == rgbToGray(r, g, b)
        char == brightnessToChar(grayscale, options)
        color == IF options.colorMode = "color"
                 THEN [r |-> RoundChannel(r), g |-> RoundChannel(g),
                       b |-> RoundChannel(b)]
                 ELSE [r |-> RoundGray(grayscale), g |-> RoundGray(grayscale),
                       b |-> RoundGray(grayscale)]
        lines == [y \in 1..height |-> [x \in 1..width |-> char]]
    IN  [error |-> "none",
         text |-> join(lines, <<"\n">>),
         lines |-> lines,
         colorData |-> [y \in 1..height |-> [x \in 1..width |-> color]],
         width |-> width, height |-> height]

(* ctx.getImageData(0, 0, width, height) throws an IndexSizeError when the *)
(* width or the height is zero                                             *)
getImageDataThrows(width, height) == width = 0 \/ height = 0

(* Math.floor(width * (originalHeight / originalWidth) * 0.5) *)
gridHeight(width, originalWidth, originalHeight) ==
    Floor(Frac(width * originalHeight, 2 * originalWidth))

convertImageData(pixel, originalWidth, originalHeight, options) ==
    LET width == options.width
        height == gridHeight(width, originalWidth, originalHeight)
    IN  IF getImageDataThrows(width, height)
        THEN [error |-> "IndexSizeError", text |-> <<>>, lines |-> <<>>,
              colorData |-> <<>>, width |-> width, height |-> height]
        ELSE processPixels(pixel, width, height, options)

(* options.key || default for a number: the default stands in for a       *)
(* missing key and for 0                                                   *)
NumberOr(options, key, default) ==
    IF key \in DOMAIN options /\ options[key] # 0 THEN options[key] ELSE default

(* options.key || default for a string or a boolean that is given or       *)
(* missing                                                                 *)
GivenOr(options, key, default) ==
    IF key \in DOMAIN options THEN options[key] ELSE default

(* the constructor: this.options is the defaults overridden by every key   *)
(* of options (the spread comes last), so a given 0 or '' stays; the keys  *)
(* the conversion to glyphs reads are kept, a customCharset of null is the *)
(* empty sequence                                                          *)
constructor(options) ==
    LET defaults == [width |-> NumberOr(options, "width", 100),
                     charset |-> GivenOr(options, "charset", "standard"),
                     customCharset |-> GivenOr(options, "customCharset", <<>>),
                     colorMode |-> GivenOr(options, "colorMode", "color"),
                     contrast |-> NumberOr(options, "contrast", 100),
                     brightness |-> NumberOr(options, "brightness", 100),
                     invert |-> GivenOr(options, "invert", FALSE)]
    IN  [key \in DOMAIN defaults |->
            IF key \in DOMAIN options THEN options[key] ELSE defaults[key]]

(* the inputs: every value of a channel, the neutral and a raised          *)
(* brightness, the contrast at which the curve is flat and the contrast    *)
(* of the configuration's documentation; and configurations with a         *)
(* contrast of 259, with an empty customCharset, with a width of 0, and    *)
(* with nothing but a width                                                *)
MaxColumns == 3
PixelInputs == { <<v, 255 - v, 128>> : v \in 0..255 }
OptionInputs ==
    [width : 1..MaxColumns, brightness : {100, 150}, contrast : {0, 128},
     invert : BOOLEAN, colorMode : {"color", "grayscale"},
     charset : {"standard"}]
    \cup [width : {2}, brightness : {100, 150}, contrast : {259},
          colorMode : {"color", "grayscale"}]
    \cup [width : {2}, customCharset : {<<>>}, contrast : {0}]
    \cup [width : {0}, contrast : {0}]
    \cup [width : {2}]
SourceInputs == { <<1, 1>>, <<4, 1>>, <<2, 4>> }

IdleConverter == cv = NULL

InitConverter ==
    \E pixel \in PixelInputs, options \in OptionInputs, src \in SourceInputs :
        cv = [given |-> options, options |-> constructor(options), originalWidth |-> src[1], originalHeight |-> src[2],
              pixel |-> pixel, pc |-> "new", result |-> NULL]

CvConvertImageData ==
    /\ UNCHANGED exceptConverter
    /\ cv.pc = "new"
    /\ cv' = [cv EXCEPT !.pc = "done",
                        !.result = convertImageData(cv.pixel, cv.originalWidth,
                                                    cv.originalHeight, cv.options)]

NextConverter == CvConvertImageData

(* the conversion has returned a grid under a colour configuration with    *)
(* the given brightness and contrast and invert = false                    *)
Transformed(brightness, contrast) ==
    /\ cv # NULL /\ cv.pc = "done" /\ cv.result.error = "none"
    /\ cv.options.brightness = brightness /\ cv.options.contrast = contrast
    /\ ~cv.options.invert /\ cv.options.colorMode = "color"

(* every cell of the returned colorData holds the input R, G, B *)
Unchanged ==
    \A y \in DOMAIN cv.result.colorData : \A x \in DOMAIN cv.result.colorData[y] :
        cv.result.colorData[y][x] = [r |-> cv.pixel[1], g |-> cv.pixel[2], b |-> cv.pixel[3]]

C13_GridShape ==
    (cv # NULL /\ cv.pc = "done") =>
        LET H == (cv.options.width * cv.originalHeight) \div (2 * cv.originalWidth)
            newlines == Cardinality({ k \in DOMAIN cv.result.text :
                                         cv.result.text[k] = "\n" })
        IN  /\ cv.result.error = "none"
            /\ Len(cv.result.lines) = H
            /\ \A y \in DOMAIN cv.result.lines :
                   Len(cv.result.lines[y]) = cv.options.width
            /\ IF H = 0 THEN cv.result.text = <<>> ELSE newlines = H - 1

(* the configuration handed to the constructor has a contrast of 259, an   *)
(* empty customCharset or a width that is not positive                     *)
InvalidConfig(options) ==
    \/ "contrast" \in DOMAIN options /\ options.contrast = 259
    \/ "customCharset" \in DOMAIN options /\ options.customCharset = <<>>
    \/ options.width <= 0

(* C28: a conversion whose configuration has contrast = 259, an empty      *)
(* glyph set or a non-positive width is rejected with invalid_config and   *)
(* produces no glyph grid                                                  *)
C28_InvalidConfigRejected ==
    (cv # NULL /\ cv.pc = "done" /\ InvalidConfig(cv.given)) =>
        /\ cv.result.error = "invalid_config"
        /\ cv.result.lines = <<>>

(***************************************************************************)
(* convertVideo's reuse of the cached frames                               *)
(* (src/src/renderer/renderer.js:1454-1532).                               *)
(*                                                                         *)
(* rs is one call that finds a cache: state.frameCache.frameRate, the      *)
(* requested rate, state.frameCache.videoFrames.length (a cached frame is  *)
(* its index), state.videoDuration in seconds, and the frames converted.   *)
(* The rates are whole numbers; interval = cachedFPS / requestedFPS and    *)
(* i * interval are doubles, and FloorOfProduct and ProductBelow give      *)
(* Math.floor(i * interval) and i * interval < n as the doubles give them: *)
(* they differ from the exact quotient only where i * cachedFPS /          *)
(* requestedFPS is a whole number k, the interval was rounded down, and    *)
(* the product rounds to the double below k.                               *)
(***************************************************************************)
MaxFPS == 15
MaxCached == 16
MaxDuration == 2

RECURSIVE Log2(_)
(* the exponent of n >= 1 *)
Log2(n) == IF n < 2 THEN 0 ELSE 1 + Log2(n \div 2)

RECURSIVE QuotientExponent(_, _)
(* the exponent of c / r for c >= r *)
QuotientExponent(c, r) == IF 2 * r > c THEN 0 ELSE 1 + QuotientExponent(c, 2 * r)

RECURSIVE Pow2Mod(_, _)
Pow2Mod(e, r) == IF e = 0 THEN 1 % r ELSE (2 * Pow2Mod(e - 1, r)) % r

(* what rounding c / r to 53 bits cuts off, in units of 1 / (r * 2^s) for  *)
(* s = 52 - QuotientExponent(c, r): the double is below c / r when this is *)
(* positive and less than r / 2                                            *)
CutOff(c, r) == ((c % r) * Pow2Mod(52 - QuotientExponent(c, r), r)) % r

(* i * (c / r) in doubles is below the whole number k = i * c / r *)
RoundsBelow(i, c, r) ==
    LET k == (i * c) \div r
        cut == CutOff(c, r)
        e == Log2(k) - QuotientExponent(c, r) + 1 - (IF k = Pow2(Log2(k)) THEN 1 ELSE 0)
    IN  /\ i > 0 /\ (i * c) % r = 0
        /\ cut > 0 /\ 2 * cut < r
        /\ 4 * i * cut > r * Pow2(e)

(* floor(i * c / r) of the exact quotient *)
ExactIndex(i, c, r) == (i * c) \div r

(* Math.floor(i * interval) *)
FloorOfProduct(i, c, r) ==
    IF RoundsBelow(i, c, r) THEN (i * c) \div r - 1 ELSE (i * c) \div r

(* i * interval < n *)
ProductBelow(i, c, r, n) ==
    IF RoundsBelow(i, c, r) THEN (i * c) \div r <= n ELSE i * c < n * r

(* Math.ceil(state.videoDuration * requestedFPS) *)
targetCount(videoDuration, requestedFPS) == videoDuration * requestedFPS

RECURSIVE resampledFrames(_, _, _, _, _)
(* the resampling loop from index i on *)
resampledFrames(i, cachedFPS, requestedFPS, n, count) ==
    IF i < count /\ ProductBelow(i, cachedFPS, requestedFPS, n)
    THEN <<FloorOfProduct(i, cachedFPS, requestedFPS)>>
             \o resampledFrames(i + 1, cachedFPS, requestedFPS, n, count)
    ELSE <<>>

IdleResample == rs = NULL

InitResample ==
    \E cachedFPS \in 1..MaxFPS, requestedFPS \in 1..MaxFPS,
       n \in 1..MaxCached, videoDuration \in 1..MaxDuration :
        rs = [cachedFPS |-> cachedFPS, requestedFPS |-> requestedFPS,
              videoFrames |-> n, videoDuration |-> videoDuration,
              pc |-> "new", extracted |-> FALSE, frames |-> <<>>]

(* convertVideo with a cache: the frames it converts, in order; a cache at *)
(* a lower rate ends the call with 'Cache invalid - need re-extraction'    *)
RsConvertVideo ==
    /\ UNCHANGED exceptResample
    /\ rs.pc = "new"
    /\ rs' = IF rs.cachedFPS < rs.requestedFPS
             THEN [rs EXCEPT !.pc = "failed"]
             ELSE IF rs.cachedFPS = rs.requestedFPS
             THEN [rs EXCEPT !.pc = "done", !.frames = FrameRange(0, rs.videoFrames)]
             ELSE [rs EXCEPT !.pc = "done",
                             !.frames = resampledFrames(0, rs.cachedFPS, rs.requestedFPS,
                                            rs.videoFrames,
                                            targetCount(rs.videoDuration, rs.requestedFPS))]

NextResample == RsConvertVideo

(* C20: with a cache at a rate f_cached >= f_out, convertVideo extracts    *)
(* nothing and converts cached[floor(i * f_cached / f_out)] for i = 0, 1,  *)
(* ... in that order, every index a valid cache index; with f_cached =     *)
(* f_out it converts every cached frame once                               *)
C20_ResampledIndices ==
    (rs # NULL /\ rs.pc # "new" /\ rs.cachedFPS >= rs.requestedFPS) =>
        /\ rs.pc = "done" /\ ~rs.extracted
        /\ \A k \in DOMAIN rs.frames :
               /\ rs.frames[k] = ExactIndex(k - 1, rs.cachedFPS, rs.requestedFPS)
               /\ rs.frames[k] \in 0..(rs.videoFrames - 1)
        /\ rs.cachedFPS = rs.requestedFPS => rs.frames = FrameRange(0, rs.videoFrames)

(***************************************************************************)
(* The progress a GIF source reports on its way through convertVideo       *)
(* (src/src/renderer/renderer.js:1551-1597), extractFramesNativePreferred  *)
(* (1030-1088) with the main process's extract:frames handler              *)
(* (src/src/main.js:597-631), and encodeGIF's main-process path            *)
(* (src/unnamed/part_001:1650-1688).                                       *)
(*                                                                         *)
(* pg is the job: its number of frames, where it is, the index of its      *)
(* loop, the PNG files the last poll counted, the percent last sent, and   *)
(* the last two progress reports, each a fraction and the phase it was     *)
(* reported for ('Extracting frames...', 'Converting to ASCII...',         *)
(* 'Sending frames...', 'Finalizing GIF...').                              *)
(***************************************************************************)
MaxGifFrames == 6

Phases == <<"extracting", "converting", "encoding", "finalizing">>

(* the place of a phase in the order of the phases, 0 before any report *)
PhaseRank(phase) ==
    IF phase = "none" THEN 0 ELSE CHOOSE k \in DOMAIN Phases : Phases[k] = phase

NoProgress == [fraction |-> Frac(0, 1), phase |-> "none"]

IdleProgress == pg = NULL

InitProgress ==
    \E n \in 1..MaxGifFrames :
        pg = [n |-> n, pc |-> "ffmpeg", i |-> 0, current |-> 0, lastSent |-> 0,
              prev |-> NoProgress, last |-> NoProgress]

(* a progress callback is called *)
Reported(job, fraction, phase) ==
    [job EXCEPT !.prev = job.last, !.last = [fraction |-> fraction, phase |-> phase]]

(* the 400 ms poll of extract:frames counts the PNG files written so far   *)
(* and sends the percent when it has changed; the renderer's listener      *)
(* reports percent / 100                                                   *)
PgPoll ==
    /\ UNCHANGED exceptProgress
    /\ pg.pc = "ffmpeg"
    /\ \E current \in (pg.current + 1)..pg.n :
           LET percent == Min(99, Round(Frac(100 * current, pg.n)))
               seen == [pg EXCEPT !.current = current, !.lastSent = percent]
           IN  pg' = IF percent # pg.lastSent
                     THEN Reported(seen, Frac(percent, 100), "extracting")
                     ELSE seen

(* ffmpeg exits: percent 100 is sent, and the frames are returned *)
PgExit ==
    /\ UNCHANGED exceptProgress
    /\ pg.pc = "ffmpeg"
    /\ pg' = Reported([pg EXCEPT !.pc = "frames", !.current = pg.n],
                      Frac(100, 100), "extracting")

(* the loop of extractFramesNativePreferred over the returned frames *)
PgFrame ==
    /\ UNCHANGED exceptProgress
    /\ pg.pc = "frames"
    /\ pg' = Reported([pg EXCEPT !.i = IF pg.i + 1 = pg.n THEN 0 ELSE pg.i + 1,
                                 !.pc = IF pg.i + 1 = pg.n THEN "convert" ELSE "frames"],
                      Frac(pg.i + 1, pg.n), "extracting")

(* convertVideo's loop over the GIF frames: 50 + (i + 1) / n * 50 percent *)
PgConvert ==
    /\ UNCHANGED exceptProgress
    /\ pg.pc = "convert"
    /\ pg' = Reported([pg EXCEPT !.i = IF pg.i + 1 = pg.n THEN 0 ELSE pg.i + 1,
                                 !.pc = IF pg.i + 1 = pg.n THEN "send" ELSE "convert"],
                      Frac(50 * pg.n + 50 * (pg.i + 1), 100 * pg.n), "converting")

(* encodeGIF's batch loop: Math.min(1, Math.min(total, i + batchSize) / total) *)
PgSend ==
    /\ UNCHANGED exceptProgress
    /\ pg.pc = "send"
    /\ pg' = Reported([pg EXCEPT !.i = pg.i + MainBatchSize,
                                 !.pc = IF pg.i + MainBatchSize < pg.n THEN "send"
                                        ELSE "finalize"],
                      Frac(Min(pg.n, pg.i + MainBatchSize), pg.n), "encoding")

(* progressCallback(0.95, 'Finalizing GIF...') *)
PgFinalize ==
    /\ UNCHANGED exceptProgress
    /\ pg.pc = "finalize"
    /\ pg' = Reported([pg EXCEPT !.pc = "complete"], Frac(95, 100), "finalizing")

(* progressCallback(1, 'GIF complete') *)
PgComplete ==
    /\ UNCHANGED exceptProgress
    /\ pg.pc = "complete"
    /\ pg' = Reported([pg EXCEPT !.pc = "done"], Frac(1, 1), "finalizing")

NextProgress ==
    PgPoll \/ PgExit \/ PgFrame \/ PgConvert \/ PgSend \/ PgFinalize \/ PgComplete

(* C11: every reported fraction lies in [0, 1], a report is not below the  *)
(* one before it in the same phase, and the phases come in the order       *)
(* extracting, converting, encoding, finalizing                            *)
C11_ProgressOrdered ==
    pg # NULL =>
        /\ 0 <= pg.last.fraction.num /\ pg.last.fraction.num <= pg.last.fraction.den
        /\ PhaseRank(pg.prev.phase) <= PhaseRank(pg.last.phase)
        /\ pg.prev.phase = pg.last.phase =>
               pg.prev.fraction.num * pg.last.fraction.den
                   <= pg.last.fraction.num * pg.prev.fraction.den

(***************************************************************************)
(* Frame extraction: extractFramesNativePreferred and                      *)
(* extractFramesWithWorker (src/src/renderer/renderer.js:807-924,          *)
(* 1030-1088).                                                             *)
(*                                                                         *)
(* xt is one extraction request: where it is (pc), whether                 *)
(* window.electronAPI.extractFramesNode exists (native), the attempts it   *)
(* has started, in order, what made it start each attempt after the first  *)
(* (retriedOn), abortSignal.aborted, the frames the native reply holds (n) *)
(* and how many of them the loop has converted (i), and how it ended.      *)
(***************************************************************************)
MaxExtracted == 3

(* why an attempt may fail: the source cannot be opened, it cannot be       *)
(* decoded, the scratch files cannot be written                            *)
ExtractErrors == {"source_open", "decode", "io"}

IdleExtract == xt = NULL

InitExtract ==
    \E native \in BOOLEAN, n \in 1..MaxExtracted :
        xt = [pc |-> "start", native |-> native, attempts |-> <<>>, retriedOn |-> <<>>,
              aborted |-> FALSE, n |-> n, i |-> 0, outcome |-> "none"]

(* the request goes on to another attempt because of cause *)
Retry(x, cause) == [x EXCEPT !.retriedOn = Append(@, cause)]

(* extractFramesWithWorker: new Worker, the 'extract' message *)
extractFramesWithWorker(x) ==
    [x EXCEPT !.pc = "worker", !.attempts = Append(@, "worker")]

(* the signal is aborted; the listener extractFramesWithWorker attached     *)
(* rejects while no 'complete' has come                                     *)
XtAbort ==
    /\ UNCHANGED exceptExtract
    /\ xt.pc # "done" /\ ~xt.aborted
    /\ xt' = IF xt.pc \in {"worker", "fallback"}
             THEN [xt EXCEPT !.aborted = TRUE, !.pc = "done", !.outcome = "AbortError"]
             ELSE [xt EXCEPT !.aborted = TRUE]

(* extractFramesNativePreferred up to its await *)
XtBegin ==
    /\ UNCHANGED exceptExtract
    /\ xt.pc = "start"
    /\ xt' = IF xt.aborted THEN [xt EXCEPT !.pc = "done", !.outcome = "AbortError"]
             ELSE IF xt.native
             THEN [xt EXCEPT !.pc = "native", !.attempts = Append(@, "native")]
             ELSE extractFramesWithWorker(xt)

(* extractFramesNode has settled: a reply with frames starts the loop, any *)
(* other reply and any rejection lead to the worker                        *)
XtNativeReply ==
    /\ UNCHANGED exceptExtract
    /\ xt.pc = "native"
    /\ \E res \in {"success"} \cup ExtractErrors :
           xt' = IF res = "success" THEN [xt EXCEPT !.pc = "frames"]
                 ELSE extractFramesWithWorker(Retry(xt, res))

(* one iteration of the loop over nodeRes.frames, and the return after it; *)
(* an ImageData that cannot be built throws into the catch                 *)
XtNativeFrame ==
    /\ UNCHANGED exceptExtract
    /\ xt.pc = "frames"
    /\ \E built \in BOOLEAN :
           xt' = IF ~built THEN extractFramesWithWorker(Retry(xt, "decode"))
                 ELSE IF xt.aborted
                 THEN [xt EXCEPT !.i = @ + 1, !.pc = "done", !.outcome = "AbortError"]
                 ELSE IF xt.i + 1 = xt.n
                 THEN [xt EXCEPT !.i = @ + 1, !.pc = "done", !.outcome = "frames"]
                 ELSE [xt EXCEPT !.i = @ + 1]

(* the worker's 'complete', 'error' or 'aborted' message *)
XtWorkerMessage ==
    /\ UNCHANGED exceptExtract
    /\ xt.pc = "worker"
    /\ \E type \in {"complete", "error", "aborted"} :
           xt' = [xt EXCEPT !.pc = "done",
                            !.outcome = IF type = "complete" THEN "frames"
                                        ELSE IF type = "error" THEN "Worker error"
                                        ELSE "AbortError"]

(* the 20 s timer fires before the worker has completed: the worker is      *)
(* terminated and extractFramesNode is called                              *)
XtWorkerTimeout ==
    /\ UNCHANGED exceptExtract
    /\ xt.pc = "worker"
    /\ xt' = IF xt.native
             THEN [Retry(xt, "timeout") EXCEPT !.pc = "fallback",
                                               !.attempts = Append(@, "native")]
             ELSE [xt EXCEPT !.pc = "done", !.outcome = "Extraction timed out"]

(* the extractFramesNode call of the timer has settled *)
XtFallbackReply ==
    /\ UNCHANGED exceptExtract
    /\ xt.pc = "fallback"
    /\ \E res \in {"success"} \cup ExtractErrors :
           xt' = [xt EXCEPT !.pc = "done",
                            !.outcome = IF res = "success" THEN "frames"
                                        ELSE "Extraction timed out"]

NextExtract ==
    \/ XtAbort \/ XtBegin \/ XtNativeReply \/ XtNativeFrame \/ XtWorkerMessage
    \/ XtWorkerTimeout \/ XtFallbackReply

(* C22: one extraction request starts at most two extraction attempts, and *)
(* only a source that could not be opened makes it start another attempt   *)
C22_RetriedOnce ==
    xt # NULL =>
        /\ Len(xt.attempts) <= 2
        /\ \A k \in DOMAIN xt.retriedOn : xt.retriedOn[k] = "source_open"

(***************************************************************************)
(* The colour palettes and findClosestColor                                *)
(* (src/unnamed/part_001:19-118).  A colour string is the sequence of its  *)
(* characters.                                                             *)
(*                                                                         *)
(* pl is one call: the palette chosen, the r, g, b asked for and the value *)
(* returned.                                                               *)
(***************************************************************************)
ansi16 ==
    << <<"#", "0", "0", "0", "0", "0", "0">>, <<"#", "8", "0", "0", "0", "0", "0">>,
       <<"#", "0", "0", "8", "0", "0", "0">>, <<"#", "8", "0", "8", "0", "0", "0">>,
       <<"#", "0", "0", "0", "0", "8", "0">>, <<"#", "8", "0", "0", "0", "8", "0">>,
       <<"#", "0", "0", "8", "0", "8", "0">>, <<"#", "c", "0", "c", "0", "c", "0">>,
       <<"#", "8", "0", "8", "0", "8", "0">>, <<"#", "f", "f", "0", "0", "0", "0">>,
       <<"#", "0", "0", "f", "f", "0", "0">>, <<"#", "f", "f", "f", "f", "0", "0">>,
       <<"#", "0", "0", "0", "0", "f", "f">>, <<"#", "f", "f", "0", "0", "f", "f">>,
       <<"#", "0", "0", "f", "f", "f", "f">>, <<"#", "f", "f", "f", "f", "f", "f">> >>

cga ==
    << <<"#", "0", "0", "0", "0", "0", "0">>, <<"#", "0", "0", "0", "0", "A", "A">>,
       <<"#", "0", "0", "A", "A", "0", "0">>, <<"#", "0", "0", "A", "A", "A", "A">>,
       <<"#", "A", "A", "0", "0", "0", "0">>, <<"#", "A", "A", "0", "0", "A", "A">>,
       <<"#", "A", "A", "5", "5", "0", "0">>, <<"#", "A", "A", "A", "A", "A", "A">>,
       <<"#", "5", "5", "5", "5", "5", "5">>, <<"#", "5", "5", "5", "5", "F", "F">>,
       <<"#", "5", "5", "F", "F", "5", "5">>, <<"#", "5", "5", "F", "F", "F", "F">>,
       <<"#", "F", "F", "5", "5", "5", "5">>, <<"#", "F", "F", "5", "5", "F", "F">>,
       <<"#", "F", "F", "F", "F", "5", "5">>, <<"#", "F", "F", "F", "F", "F", "F">> >>

gameboy ==
    << <<"#", "0", "f", "3", "8", "0", "f">>, <<"#", "3", "0", "6", "2", "3", "0">>,
       <<"#", "8", "b", "a", "c", "0", "f">>, <<"#", "9", "b", "b", "c", "0", "f">> >>

HexDigits ==
    <<"0", "1", "2", "3", "4", "5", "6", "7", "8", "9", "a", "b", "c", "d", "e", "f">>
UpperHexDigits ==
    <<"0", "1", "2", "3", "4", "5", "6", "7", "8", "9", "A", "B", "C", "D", "E", "F">>

(* v.toString(16).padStart(2, '0') for 0 <= v <= 255 *)
toHex2(v) == <<HexDigits[(v \div 16) + 1], HexDigits[(v % 16) + 1]>>

(* the value of each hexadecimal digit, in either case *)
DigitValues ==
    [c \in { HexDigits[d] : d \in 1..16 } \cup { UpperHexDigits[d] : d \in 1..16 } |->
        CHOOSE d \in 0..15 : HexDigits[d + 1] = c \/ UpperHexDigits[d + 1] = c]
DigitValue(c) == DigitValues[c]

(* parseInt(hexColor.slice(from, from + 2), 16), from counted from 0 *)
parseInt16(hexColor, from) ==
    16 * DigitValue(hexColor[from + 1]) + DigitValue(hexColor[from + 2])

(* the 6 x 6 x 6 cube of generateANSI256Palette, entry 16 + k *)
CubeLevel(n) == IF n > 0 THEN n * 40 + 55 ELSE 0
CubeEntry(k) ==
    <<"#">> \o toHex2(CubeLevel(k \div 36)) \o toHex2(CubeLevel((k \div 6) % 6))
            \o toHex2(CubeLevel(k % 6))

(* its 24 greys, entry 232 + i *)
GreyEntry(i) == <<"#">> \o toHex2(8 + i * 10) \o toHex2(8 + i * 10) \o toHex2(8 + i * 10)

generateANSI256Palette ==
    ansi16 \o [k \in 1..216 |-> CubeEntry(k - 1)] \o [i \in 1..24 |-> GreyEntry(i - 1)]

ansi256 == generateANSI256Palette

(* ASCIIConverter.COLOR_PALETTES[name] once a converter has been made; NULL *)
(* for 'full' and for a name that is no palette                            *)
COLOR_PALETTES(name) ==
    IF name = "ansi256" THEN ansi256
    ELSE IF name = "ansi16" THEN ansi16
    ELSE IF name = "cga" THEN cga
    ELSE IF name = "gameboy" THEN gameboy
    ELSE NULL

(* Math.pow(x, 2) *)
Squared(x) == x * x

(* the sum under the square root of findClosestColor *)
SquaredDistance(r, g, b, hexColor) ==
    Squared(r - parseInt16(hexColor, 1)) + Squared(g - parseInt16(hexColor, 3))
        + Squared(b - parseInt16(hexColor, 5))

(* a scan that lets a later entry at the same distance win *)
NotFarther(dist, minDist) == minDist = NoValue \/ dist <= minDist

(* dist < minDist, with NoValue for the Infinity minDist starts at.  dist   *)
(* and minDist are square roots of integers below 2^18, on which Math.sqrt *)
(* is strictly increasing, so the roots compare as the integers do          *)
Closer(dist, minDist) == minDist = NoValue \/ dist < minDist

(* the for loop of findClosestColor from entry k up to entry end, with     *)
(* best = <<minDist, closestColor>>                                        *)
RECURSIVE ClosestFrom(_, _, _, _, _, _, _)
ClosestFrom(palette, k, end, r, g, b, best) ==
    IF k > end THEN best
    ELSE IF Closer(SquaredDistance(r, g, b, palette[k]), best[1])
         THEN ClosestFrom(palette, k + 1, end, r, g, b,
                          <<SquaredDistance(r, g, b, palette[k]), palette[k]>>)
         ELSE ClosestFrom(palette, k + 1, end, r, g, b, best)

(* the same loop run in stretches of 64 entries, one after the other *)
RECURSIVE ClosestColor(_, _, _, _, _, _)
ClosestColor(palette, k, r, g, b, best) ==
    IF k > Len(palette) THEN best
    ELSE LET next == ClosestFrom(palette, k,
                                 IF k + 63 < Len(palette) THEN k + 63 ELSE Len(palette),
                                 r, g, b, best)
         IN  IF next[2] # <<>> THEN ClosestColor(palette, k + 64, r, g, b, next)
             ELSE next

(* `rgb(${r},${g},${b})` *)
rgb(r, g, b) == <<"rgb(", ToString(r), ",", ToString(g), ",", ToString(b), ")">>

findClosestColor(r, g, b, colorPalette) ==
    LET palette == COLOR_PALETTES(colorPalette)
    IN  IF palette = NULL THEN rgb(r, g, b)
        ELSE ClosestColor(palette, 1, r, g, b, <<NoValue, palette[1]>>)[2]

(* the channel values asked for: the ends, the middle, and values half way *)
(* between two levels of the palettes                                      *)
ChannelInputs == {0, 42, 85, 128, 213, 255}
PaletteInputs == {"full", "ansi256", "ansi16", "cga", "gameboy"}

IdlePalette == pl = NULL

InitPalette ==
    \E r \in ChannelInputs, g \in ChannelInputs, b \in ChannelInputs,
       colorPalette \in PaletteInputs :
        pl = [r |-> r, g |-> g, b |-> b, colorPalette |-> colorPalette,
              pc |-> "new", result |-> <<>>]

PlFindClosestColor ==
    /\ UNCHANGED exceptPalette
    /\ pl.pc = "new"
    /\ pl' = [pl EXCEPT !.pc = "done",
                        !.result = findClosestColor(pl.r, pl.g, pl.b, pl.colorPalette)]

NextPalette == PlFindClosestColor

(* the squared distance of each palette entry from the call's colour *)
Distances(palette) ==
    [k \in DOMAIN palette |-> SquaredDistance(pl.r, pl.g, pl.b, palette[k])]

(* the indices at the least of the distances d *)
Nearest(d) == { k \in DOMAIN d : \A j \in DOMAIN d : d[k] <= d[j] }

(* C25: under a selected palette findClosestColor returns the entry at the *)
(* least squared Euclidean distance from (r, g, b), and of the entries at  *)
(* that distance the one with the smallest index                           *)
C25_NearestFirst ==
    (pl # NULL /\ pl.pc = "done" /\ COLOR_PALETTES(pl.colorPalette) # NULL) =>
        LET palette == COLOR_PALETTES(pl.colorPalette)
            nearest == Nearest(Distances(palette))
            first == CHOOSE k \in nearest : \A j \in nearest : k <= j
        IN  pl.result = palette[first]

(* a call has returned for a colour that two different entries of the CGA  *)
(* palette are nearest to                                                  *)
C25_Witness ==
    /\ pl # NULL /\ pl.pc = "done" /\ pl.colorPalette = "cga"
    /\ \E k, j \in Nearest(Distances(cga)) : cga[k] # cga[j]

(***************************************************************************)
(* The text and the coloured markup of a glyph grid: the text of           *)
(* processPixels and generateDisplayHTML (src/unnamed/part_001:314-323,    *)
(* 389-436, 505-523).  A string is the sequence of its pieces: a glyph, an *)
(* entity, a line feed, a number, or a fixed part of a tag.                *)
(*                                                                         *)
(* mk is one grid (lines and colorData, as processPixels returns them)     *)
(* with the options of its converter, and the text and the markup made of  *)
(* it.                                                                     *)
(***************************************************************************)
BrailleBlank == "U+2800"

isBlankChar(char) == char = " " \/ char = BrailleBlank

escapeHTML(char) ==
    IF char = "&" THEN "&amp;"
    ELSE IF char = "<" THEN "&lt;"
    ELSE IF char = ">" THEN "&gt;"
    ELSE IF char = "\"" THEN "&quot;"
    ELSE IF char = "'" THEN "&#039;"
    ELSE char

(* l.replace(/⠀/g, ' ') *)
replaceBrailleBlank(l) == [x \in DOMAIN l |-> IF l[x] = BrailleBlank THEN " " ELSE l[x]]

(* the text processPixels returns for lines *)
textOf(lines) == join([y \in DOMAIN lines |-> replaceBrailleBlank(lines[y])], <<"\n">>)

(* a span that loses its glyphs *)
emptySpan(currentColor, currentSpan) ==
    <<"<span style=\"color:">> \o currentColor \o <<"\">", "</span>">>

(* `<span style="color:${currentColor}">${currentSpan}</span>` *)
span(currentColor, currentSpan) ==
    <<"<span style=\"color:">> \o currentColor \o <<"\">">> \o currentSpan \o <<"</span>">>

(* the loop over x of generateDisplayHTML and the flush after it: the      *)
(* markup of one line, appended to html; a currentColor of null is the     *)
(* empty sequence, which no colour string is                               *)
RECURSIVE spanLine(_, _, _, _, _, _, _)
spanLine(line, colors, x, html, currentSpan, currentColor, options) ==
    IF x > Len(line)
    THEN IF currentSpan # <<>> THEN html \o span(currentColor, currentSpan) ELSE html
    ELSE LET char == line[x]
             color == colors[x]
             colorStr == IF options.colorMode = "color"
                         THEN findClosestColor(color.r, color.g, color.b,
                                               options.colorPalette)
                         ELSE rgb(color.r, color.g, color.b)
         IN  IF isBlankChar(char)
             THEN spanLine(line, colors, x + 1,
                           (IF currentSpan # <<>>
                            THEN html \o span(currentColor, currentSpan) ELSE html)
                               \o <<" ">>,
                           IF currentSpan # <<>> THEN <<>> ELSE currentSpan,
                           IF currentSpan # <<>> THEN <<>> ELSE currentColor, options)
             ELSE IF currentColor = colorStr
             THEN spanLine(line, colors, x + 1, html,
                           Append(currentSpan, escapeHTML(char)), currentColor, options)
             ELSE spanLine(line, colors, x + 1,
                           IF currentSpan # <<>>
                           THEN html \o span(currentColor, currentSpan) ELSE html,
                           <<escapeHTML(char)>>, colorStr, options)

(* the loop over y of generateDisplayHTML from line y on *)
RECURSIVE displayLines(_, _, _, _)
displayLines(asciiResult, y, html, options) ==
    IF y > Len(asciiResult.lines) THEN html
    ELSE displayLines(asciiResult, y + 1,
                      spanLine(asciiResult.lines[y], asciiResult.colorData[y], 1, html,
                               <<>>, <<>>, options) \o <<"\n">>,
                      options)

generateDisplayHTML(asciiResult, options) == displayLines(asciiResult, 1, <<>>, options)

(* the loop over x of generateHTML: one span for every glyph that is not   *)
(* blank                                                                   *)
RECURSIVE exportLine(_, _, _, _)
exportLine(line, colors, x, html) ==
    IF x > Len(line) THEN html
    ELSE exportLine(line, colors, x + 1,
                    IF isBlankChar(line[x]) THEN html \o <<" ">>
                    ELSE html \o span(rgb(colors[x].r, colors[x].g, colors[x].b),
                                      <<escapeHTML(line[x])>>))

(* the loop over y of generateHTML from line y on *)
RECURSIVE exportLines(_, _, _)
exportLines(asciiResult, y, html) ==
    IF y > Len(asciiResult.lines) THEN html
    ELSE exportLines(asciiResult, y + 1,
                     exportLine(asciiResult.lines[y], asciiResult.colorData[y], 1, html)
                         \o <<"\n">>)

(* generateHTML: the document's head up to <div class="ascii-art"> and its *)
(* tail from </div> on are one piece each                                  *)
generateHTML(asciiResult, includeStyles) ==
    IF includeStyles
    THEN exportLines(asciiResult, 1, <<"<!DOCTYPE html>">>) \o <<"</div>">>
    ELSE exportLines(asciiResult, 1, <<>>)

(* the plain-text projection of a markup: the tags are removed and the     *)
(* entities decoded                                                        *)
decodeEntity(piece) ==
    IF piece = "&amp;" THEN "&"
    ELSE IF piece = "&lt;" THEN "<"
    ELSE IF piece = "&gt;" THEN ">"
    ELSE IF piece = "&quot;" THEN "\""
    ELSE IF piece = "&#039;" THEN "'"
    ELSE piece

RECURSIVE withoutTags(_, _)
withoutTags(html, inTag) ==
    IF html = <<>> THEN <<>>
    ELSE IF inTag THEN withoutTags(Tail(html), Head(html) # "\">")
    ELSE IF Head(html) = "<span style=\"color:" THEN withoutTags(Tail(html), TRUE)
    ELSE IF Head(html) = "</span>" THEN withoutTags(Tail(html), FALSE)
    ELSE <<decodeEntity(Head(html))>> \o withoutTags(Tail(html), FALSE)

plainText(html) == withoutTags(html, FALSE)

(* the grids: the glyphs are a visible glyph, both blanks and two glyphs   *)
(* that markup has to escape; the cells are black or white                 *)
GlyphInputs == {"@", " ", BrailleBlank, "<", "&"}
ColorInputs == { [r |-> v, g |-> v, b |-> v] : v \in {0, 255} }
GridShapes == { <<1, 0>>, <<1, 1>>, <<2, 1>>, <<1, 2>>, <<2, 2>> }
MarkupOptions == [colorMode : {"color", "grayscale"}, colorPalette : {"full", "gameboy"}]

IdleMarkup == mk = NULL

InitMarkup ==
    \E shape \in GridShapes, options \in MarkupOptions :
        \E lines \in [1..shape[2] -> [1..shape[1] -> GlyphInputs]],
           colorData \in [1..shape[2] -> [1..shape[1] -> ColorInputs]] :
            mk = [lines |-> lines, colorData |-> colorData, options |-> options,
                  pc |-> "new", text |-> <<>>, html |-> <<>>, exported |-> <<>>]

MkGenerate ==
    /\ UNCHANGED exceptMarkup
    /\ mk.pc = "new"
    /\ mk' = [mk EXCEPT !.pc = "done", !.text = textOf(mk.lines),
                        !.html = generateDisplayHTML(mk, mk.options),
                        !.exported = generateHTML(mk, TRUE)]

NextMarkup == MkGenerate

(* C23 as stated: the text of a grid and the plain-text projection of its  *)
(* coloured markup agree character for character after blank             *)
(* normalization, line separators included                                 *)
C23_TextIsProjection ==
    (mk # NULL /\ mk.pc = "done") =>
        replaceBrailleBlank(plainText(mk.html)) = replaceBrailleBlank(mk.text)

(* C23 amended: after blank normalization the plain-text projection of the *)
(* coloured markup is the text of the grid followed by one line feed when  *)
(* the grid has a row, and the empty text when it has none: the markup     *)
(* ends every row with a line feed, the text puts one between two rows     *)
C23_ProjectionIsTerminatedText ==
    (mk # NULL /\ mk.pc = "done") =>
        replaceBrailleBlank(plainText(mk.html))
            = replaceBrailleBlank(mk.text) \o (IF Len(mk.lines) > 0 THEN <<"\n">> ELSE <<>>)

(* the markup of a grid of two rows has been made, with a span of two      *)
(* glyphs of which one is escaped, and a blank                             *)
C23_Witness ==
    /\ mk # NULL /\ mk.pc = "done" /\ Len(mk.lines) = 2
    /\ mk.lines[1] = <<"@", "<">> /\ mk.lines[2] = <<BrailleBlank, "&">>
    /\ mk.colorData[1][1] = mk.colorData[1][2]
    /\ mk.options.colorMode = "color" /\ mk.options.colorPalette = "gameboy"

(* the colour of the span that opens at piece q of a markup, and the       *)
(* opening of the span that closes at piece p                              *)
ColourOfSpan(html, q) ==
    SubSeq(html, q + 1,
           (CHOOSE j \in (q + 1)..Len(html) :
                /\ html[j] = "\">"
                /\ \A i \in (q + 1)..(j - 1) : html[i] # "\">") - 1)
OpeningOf(html, p) ==
    CHOOSE q \in 1..p : /\ html[q] = "<span style=\"color:"
                        /\ \A i \in (q + 1)..p : html[i] # "<span style=\"color:"

(* two spans that follow each other directly differ in colour *)
MaximalRuns(html) ==
    \A p \in 1..(Len(html) - 1) :
        (html[p] = "</span>" /\ html[p + 1] = "<span style=\"color:") =>
            ColourOfSpan(html, OpeningOf(html, p)) # ColourOfSpan(html, p + 1)

(* every space of the markup stands outside the spans *)
BlanksUnstyled(html) ==
    \A p \in 1..Len(html) :
        html[p] = " " =>
            \A q \in 1..p : html[q] = "<span style=\"color:" =>
                \E i \in q..p : html[i] = "</span>"

(* C32: in the display markup and in the exported HTML every styled span   *)
(* is a maximal constant-colour run (two spans emitted directly one after  *)
(* the other never carry the same colour) and blank cells are emitted as   *)
(* unstyled spaces                                                         *)
C32_MaximalRuns ==
    (mk # NULL /\ mk.pc = "done") =>
        /\ MaximalRuns(mk.html) /\ BlanksUnstyled(mk.html)
        /\ MaximalRuns(mk.exported) /\ BlanksUnstyled(mk.exported)

(***************************************************************************)
(* brightnessToChar over the glyph sets (src/unnamed/part_001:8-16,        *)
(* 123-128, 154-166).                                                      *)
(*                                                                         *)
(* gl is one call: the luminance (in thousandths, as rgbToGray gives it),  *)
(* the options that choose the glyph set and the direction, and the index  *)
(* selected and the glyph returned.                                        *)
(***************************************************************************)
(* the luminances: every whole value of 0..255 and the values half way     *)
(* between two of them                                                     *)
LuminanceInputs ==
    { [whole |-> 500 * h, part |-> 0, den |-> 1] : h \in 0..510 }

(* every entry of CHARSETS, a name that is no entry, and two custom sets *)
GlyphOptions ==
    [charset : {"standard", "detailed", "blocks", "simple", "binary", "braille", "dots",
                "none"},
     customCharset : {<<>>}, invert : BOOLEAN]
    \cup [charset : {"standard"}, customCharset : {<<"#", " ">>, <<"a", "b", "c">>},
          invert : BOOLEAN]

IdleGlyph == gl = NULL

InitGlyph ==
    \E gray \in LuminanceInputs, options \in GlyphOptions :
        gl = [gray |-> gray, options |-> options, pc |-> "new", index |-> NoValue,
              char |-> "none"]

GlBrightnessToChar ==
    /\ UNCHANGED exceptGlyph
    /\ gl.pc = "new"
    /\ gl' = [gl EXCEPT !.pc = "done",
                        !.index = charIndex(gl.gray, Len(getCharset(gl.options)) - 1,
                                            gl.options.invert),
                        !.char = brightnessToChar(gl.gray, gl.options)]

NextGlyph == GlBrightnessToChar

(* C24: for a luminance in [0, 255], a glyph set S of two or more glyphs   *)
(* and either direction, brightnessToChar selects an index in 0 .. |S| - 1 *)
(* and returns a glyph of S                                                *)
C24_GlyphOfSet ==
    (gl # NULL /\ gl.pc = "done" /\ Len(getCharset(gl.options)) >= 2) =>
        LET S == getCharset(gl.options)
        IN  /\ gl.index \in 0..(Len(S) - 1)
            /\ \E k \in DOMAIN S : gl.char = S[k]

(* the darkest luminance has been given its glyph in a set of two, not     *)
(* inverted: the last index                                                *)
C24_Witness ==
    /\ gl # NULL /\ gl.pc = "done" /\ gl.options.charset = "binary"
    /\ gl.options.customCharset = <<>> /\ ~gl.options.invert
    /\ gl.gray.whole = 0 /\ gl.index = 1 /\ gl.char = "1"

(***************************************************************************)
(* encodeVideoWebCodecs (src/unnamed/part_001:1952-2110): the rate of the  *)
(* video is options.frameRate, or 1000 over the mean delay of the frames   *)
(* when no rate was asked for and there is more than one frame, or 24; a   *)
(* frame lasts 1000000 / fps microseconds and encodeAllFrames stamps frame *)
(* i with Math.round(i * frameDuration).                                   *)
(*                                                                         *)
(* tm is one run of encodeAllFrames: the rate asked for, the number of     *)
(* frames and the delay each of them carries, the rate in use, and the     *)
(* timestamp, duration and keyFrame flag handed to the encoder for every   *)
(* frame so far.  The rates are doubles; the model computes with exact     *)
(* fractions, which agree with the doubles on the inputs below: no product *)
(* i * 1000000 / fps of a whole rate below 128, or of a rate derived from  *)
(* one delay shared by all frames, lies half way between two integers.     *)
(***************************************************************************)
RateInputs == {0, 1, 5, 12, 24, 30, 60}
FrameCounts == {1, 4, 12}
DelayInputs == {0, 33, 40, 1000}

Max(a, b) == IF a > b THEN a ELSE b

(* frame.delay || 100, summed over n frames that carry the same delay *)
totalDelay(n, delay) == n * (IF delay = 0 THEN 100 ELSE delay)

fpsOf(frameRate, n, delay) ==
    IF frameRate # 0 THEN Frac(frameRate, 1)
    ELSE IF n > 1 THEN Reduced(1000 * n, totalDelay(n, delay))
    ELSE Frac(24, 1)

frameDuration(fps) == Reduced(1000000 * fps.den, fps.num)

(* a timestamp that adds up rounded durations *)
timestampOfRounded(i, duration) == i * Round(duration)

timestamp(i, duration) == Round(Frac(i * duration.num, duration.den))

keyFrame(i, fps) == i % Max(1, Round(Frac(2 * fps.num, fps.den))) = 0

IdleTiming == tm = NULL

InitTiming ==
    \E frameRate \in RateInputs, n \in FrameCounts, delay \in DelayInputs :
        tm = [frameRate |-> frameRate, n |-> n, delay |-> delay,
              fps |-> fpsOf(frameRate, n, delay), stamps |-> <<>>]

(* one turn of the loop of encodeAllFrames *)
TmEncodeFrame ==
    /\ tm # NULL
    /\ Len(tm.stamps) < tm.n
    /\ LET i == Len(tm.stamps)
       IN  tm' = [tm EXCEPT !.stamps = Append(@,
                     [timestamp |-> timestamp(i, frameDuration(tm.fps)),
                      duration |-> Round(frameDuration(tm.fps)),
                      keyFrame |-> keyFrame(i, tm.fps)])]
    /\ UNCHANGED exceptTiming

NextTiming == TmEncodeFrame

(* C27: at rate f_out frame i is stamped round(i * 1000000 / f_out)        *)
(* microseconds and lasts round(1000000 / f_out) microseconds, the stamps  *)
(* grow strictly with i, and frame i is asked for as a key frame exactly   *)
(* when i mod max(1, round(2 * f_out)) = 0, so frame 0 always is.          *)
C27_Timing ==
    tm # NULL =>
        LET f == tm.fps
            interval == Max(1, (4 * f.num + f.den) \div (2 * f.den))
        IN  /\ \A k \in DOMAIN tm.stamps :
                  /\ tm.stamps[k].timestamp =
                         (2 * (k - 1) * 1000000 * f.den + f.num) \div (2 * f.num)
                  /\ tm.stamps[k].duration =
                         (2 * 1000000 * f.den + f.num) \div (2 * f.num)
                  /\ tm.stamps[k].keyFrame <=> ((k - 1) % interval = 0)
                  /\ k > 1 => tm.stamps[k].timestamp > tm.stamps[k - 1].timestamp
            /\ tm.stamps # <<>> => tm.stamps[1].keyFrame

C27_Witness ==
    /\ tm # NULL
    /\ tm.frameRate = 5
    /\ Len(tm.stamps) = 12
    /\ tm.stamps[11].keyFrame
    /\ ~tm.stamps[10].keyFrame
    /\ tm.stamps[12].timestamp = 2200000

(***************************************************************************)
(* GIFEncoder with a transparent colour (src/unnamed/part_001:799-801,     *)
(* 803-825, 858-913, 954-983): setTransparent, then addFrame for each      *)
(* frame; analyzePixels looks the colour up with findClosest and           *)
(* writeGraphicCtrlExt writes the flag and the index.                      *)
(*                                                                         *)
(* te is one encoder of 2 x 1 frames: the encoder, the quantizer's result  *)
(* for the last frame added, the eight bytes of the last graphic control   *)
(* extension written, and the number of frames added.                      *)
(***************************************************************************)
MaxTransparentFrames == 2

(* colour tables of 256 entries: black and white in turn, and a grey ramp *)
AlternatingTab == [i \in 1..768 |-> IF ((i - 1) \div 3) % 2 = 0 THEN 0 ELSE 255]
GreyRamp == [i \in 1..768 |-> (i - 1) \div 3]

(* null, black, white and the grey 0x0A0A0A *)
TransparentInputs == {NoValue, 0, 16777215, 657930}

TransparentFrames ==
    { [colorTab |-> tab, indexedPixels |-> px] :
          tab \in {AlternatingTab, GreyRamp},
          px \in {<<2, 3>>, <<0, 0>>, <<10, 200>>, <<255, 254>>} }

IdleTransparent == te = NULL

InitTransparent ==
    \E color \in TransparentInputs :
        te = [encoder |-> setTransparent(GIFEncoder(2, 1), color),
              frame |-> NULL, gce |-> <<>>, frames |-> 0]

(* encoder.addFrame(imageData) *)
TeAddFrame ==
    /\ te # NULL
    /\ te.frames < MaxTransparentFrames
    /\ \E q \in TransparentFrames :
         LET g1 == WriteFirstFrameHeader(analyzePixels(te.encoder, q))
         IN  te' = [encoder |-> addFrame(te.encoder, q),
                    frame |-> q,
                    gce |-> SubSeq(writeGraphicCtrlExt(g1).out,
                                   Len(g1.out) + 1, Len(g1.out) + 8),
                    frames |-> te.frames + 1]
    /\ UNCHANGED exceptTransparent

NextTransparent == TeAddFrame

(* the squared distance of the colour c = 0xRRGGBB from entry k of tab *)
DistanceToEntry(c, tab, k) ==
    Squared(((c \div 65536) % 256) - tab[3 * k + 1])
        + Squared(((c \div 256) % 256) - tab[3 * k + 2])
        + Squared((c % 256) - tab[3 * k + 3])

(* C30: when a transparent colour is configured, the transparent index     *)
(* written in each graphic control extension is the index of the palette   *)
(* entry nearest to that colour among the entries the image references,    *)
(* and the transparent flag is unset when no palette entry is referenced   *)
C30_TransparentIndex ==
    (te # NULL /\ te.frames > 0 /\ te.encoder.transparent # NoValue) =>
        LET c == te.encoder.transparent
            tab == te.frame.colorTab
            used == { te.frame.indexedPixels[i] : i \in DOMAIN te.frame.indexedPixels }
        IN  /\ te.gce[4] % 2 = (IF used = {} THEN 0 ELSE 1)
            /\ used # {} =>
                   /\ te.gce[7] \in used
                   /\ \A k \in used :
                          DistanceToEntry(c, tab, te.gce[7]) <= DistanceToEntry(c, tab, k)

(***************************************************************************)
(* NeuQuant.inxbuild and NeuQuant.map (src/unnamed/part_001:1131-1170,     *)
(* 1313-1368).                                                             *)
(*                                                                         *)
(* nq is one quantizer after unbiasnet: the network as learn left it       *)
(* (input), the network inxbuild is sorting and the netindex it is         *)
(* filling, the position i of its outer loop with previouscol and          *)
(* startpos, and the last map(r, g, b) asked with its answer.  A sample is *)
(* <<n[0], n[1], n[2], n[3]>>; sample k of the source is network[k + 1].   *)
(* inxbuild is taken one turn of its outer loop at a time.                 *)
(***************************************************************************)
netsize == 256
maxnetpos == netsize - 1

(* networks after unbiasnet: the one the constructor starts from, one with *)
(* all greens different, one with sixteen greens, one with a single green  *)
NetworkInputs ==
    { [k \in 1..netsize |-> <<k - 1, k - 1, k - 1, k - 1>>],
      [k \in 1..netsize |-> <<((k - 1) * 37 + 11) % 256, ((k - 1) * 101 + 7) % 256,
                             ((k - 1) * 59 + 3) % 256, k - 1>>],
      [k \in 1..netsize |-> <<((k - 1) * 37 + 11) % 256, (((k - 1) * 7) % 16) * 16 + 8,
                             ((k - 1) * 59 + 3) % 256, k - 1>>],
      [k \in 1..netsize |-> <<k - 1, 128, 255 - (k - 1), k - 1>>] }

(* the colours asked for *)
MapInputs == {0, 9, 100, 128, 200, 255}

(* the inner loop of inxbuild from sample j up to sample end, with         *)
(* small = <<smallpos, smallval>>                                          *)
RECURSIVE SmallestFrom(_, _, _, _)
SmallestFrom(network, j, end, small) ==
    IF j > end THEN small
    ELSE IF network[j + 1][2] < small[2]
         THEN SmallestFrom(network, j + 1, end, <<j, network[j + 1][2]>>)
         ELSE SmallestFrom(network, j + 1, end, small)

(* the same loop run in stretches of 64 samples, one after the other *)
RECURSIVE Smallest(_, _, _)
Smallest(network, j, small) ==
    IF j >= netsize THEN small
    ELSE LET next == SmallestFrom(network, j,
                                  IF j + 63 < netsize THEN j + 63 ELSE netsize - 1, small)
         IN  IF next[1] >= 0 THEN Smallest(network, j + 64, next) ELSE next

(* the swap of samples i and smallpos *)
Swapped(network, i, smallpos) ==
    [k \in 1..netsize |-> IF k = i + 1 THEN network[smallpos + 1]
                          ELSE IF k = smallpos + 1 THEN network[i + 1]
                          ELSE network[k]]

IdleNeuQuant == nq = NULL

InitNeuQuant ==
    \E network \in NetworkInputs :
        nq = [input |-> network, network |-> network,
              netindex |-> [g \in 0..255 |-> 0],
              i |-> 0, previouscol |-> 0, startpos |-> 0,
              asked |-> <<>>, best |-> NoValue]

(* one turn of the outer loop of inxbuild *)
NqInxbuildTurn ==
    /\ nq # NULL
    /\ nq.i < netsize
    /\ LET i == nq.i
           small == Smallest(nq.network, i + 1, <<i, nq.network[i + 1][2]>>)
           smallpos == small[1]
           smallval == small[2]
       IN  nq' = [nq EXCEPT
                     !.network = IF i # smallpos THEN Swapped(@, i, smallpos) ELSE @,
                     !.netindex = IF smallval # nq.previouscol
                                  THEN [g \in 0..255 |->
                                           IF g = nq.previouscol THEN (nq.startpos + i) \div 2
                                           ELSE IF g > nq.previouscol /\ g < smallval THEN i
                                           ELSE @[g]]
                                  ELSE @,
                     !.previouscol = IF smallval # @ THEN smallval ELSE @,
                     !.startpos = IF smallval # nq.previouscol THEN i ELSE @,
                     !.i = i + 1]
    /\ UNCHANGED exceptNeuQuant

(* the end of inxbuild, after the loop *)
NqInxbuildEnd ==
    /\ nq # NULL
    /\ nq.i = netsize
    /\ nq' = [nq EXCEPT
                 !.netindex = [g \in 0..255 |->
                                  IF g = nq.previouscol THEN (nq.startpos + maxnetpos) \div 2
                                  ELSE IF g > nq.previouscol THEN maxnetpos
                                  ELSE @[g]],
                 !.i = netsize + 1]
    /\ UNCHANGED exceptNeuQuant

AbsOf(x) == IF x < 0 THEN -x ELSE x

(* a sample taken up by map whatever its distance *)
Accepted(n, dist, r, g, b, w) ==
    [w EXCEPT !.bestd = dist + AbsOf(n[1] - r) + AbsOf(n[3] - b), !.best = n[4]]

(* the body both directions of map share once the green distance is below  *)
(* bestd: |dg| + |dr|, then + |db|, each compared with bestd               *)
Examined(n, dist, r, g, b, w) ==
    LET d1 == AbsOf(dist) + AbsOf(n[1] - r)
        d2 == d1 + AbsOf(n[3] - b)
    IN  IF d1 < w.bestd /\ d2 < w.bestd
        THEN [w EXCEPT !.bestd = d2, !.best = n[4]]
        ELSE w

(* one turn of the while loop of map on w = [i, j, bestd, best] *)
MapTurn(network, r, g, b, w) ==
    LET up == IF w.i < netsize
              THEN LET n == network[w.i + 1]
                       dist == n[2] - g
                   IN  IF dist >= w.bestd THEN [w EXCEPT !.i = netsize]
                       ELSE Examined(n, dist, r, g, b, [w EXCEPT !.i = @ + 1])
              ELSE w
    IN  IF up.j >= 0
        THEN LET n == network[up.j + 1]
                 dist == g - n[2]
             IN  IF dist >= up.bestd THEN [up EXCEPT !.j = -1]
                 ELSE Examined(n, dist, r, g, b, [up EXCEPT !.j = @ - 1])
        ELSE up

(* at most fuel turns of the while loop *)
RECURSIVE MapTurns(_, _, _, _, _, _)
MapTurns(network, r, g, b, w, fuel) ==
    IF fuel = 0 \/ ~(w.i < netsize \/ w.j >= 0) THEN w
    ELSE LET next == MapTurn(network, r, g, b, w)
         IN  IF next.bestd >= 0 THEN MapTurns(network, r, g, b, next, fuel - 1)
             ELSE next

(* the while loop run in stretches of 64 turns, one after the other *)
RECURSIVE MapLoop(_, _, _, _, _)
MapLoop(network, r, g, b, w) ==
    IF ~(w.i < netsize \/ w.j >= 0) THEN w
    ELSE LET next == MapTurns(network, r, g, b, w, 64)
         IN  IF next.bestd >= 0 THEN MapLoop(network, r, g, b, next) ELSE next

map(network, netindex, r, g, b) ==
    MapLoop(network, r, g, b,
            [i |-> netindex[g], j |-> netindex[g] - 1, bestd |-> 1000, best |-> -1]).best

(* the first nq.map(r, g, b) on the network inxbuild has sorted and        *)
(* indexed; map changes nothing of the quantizer                           *)
NqMap ==
    /\ nq # NULL
    /\ nq.i = netsize + 1
    /\ nq.asked = <<>>
    /\ \E r \in MapInputs, g \in MapInputs, b \in MapInputs :
         nq' = [nq EXCEPT !.asked = <<r, g, b>>,
                          !.best = map(nq.network, nq.netindex, r, g, b)]
    /\ UNCHANGED exceptNeuQuant

NextNeuQuant == NqInxbuildTurn \/ NqInxbuildEnd \/ NqMap

(* |dr| + |dg| + |db| of input sample k from the colour asked *)
SampleDistance(k) ==
    AbsOf(nq.input[k + 1][1] - nq.asked[1]) + AbsOf(nq.input[k + 1][2] - nq.asked[2])
        + AbsOf(nq.input[k + 1][3] - nq.asked[3])

(* C31: after inxbuild has sorted the network by green and built netindex, *)
(* map(r, g, b) returns the original index, in 0..255 and never -1, of a   *)
(* sample whose distance |dr| + |dg| + |db| to (r, g, b) is minimal over   *)
(* all 256 samples                                                         *)
C31_MapIsNearest ==
    (nq # NULL /\ nq.asked # <<>>) =>
        /\ nq.best \in 0..255
        /\ \A k \in 0..(netsize - 1) : SampleDistance(nq.best) <= SampleDistance(k)

(* inxbuild leaves the samples in ascending order of green, each with its  *)
(* own colour and original index                                           *)
C31_Witness ==
    /\ nq # NULL /\ nq.asked = <<9, 200, 100>>
    /\ nq.input[1] = <<11, 8, 3, 0>>
    /\ \A k \in 1..(netsize - 1) : nq.network[k][2] <= nq.network[k + 1][2]
    /\ nq.network # nq.input
    /\ nq.best \in 0..255

(***************************************************************************)
(* The main process's extract:frames handler (src/src/main.js:524-686).    *)
(*                                                                         *)
(* nx is one call: the payload, where the handler stands, how many PNG     *)
(* files ffmpeg has written into tmpDir, how ffmpeg ended, the progress    *)
(* events sent, and what the handler returned.  ffmpeg, ffprobe and the    *)
(* PNG decoder are the environment: each may fail.                         *)
(***************************************************************************)
maxFrames == 1000

PayloadInputs == {"dataUrlString", "badString", "dataUrlObject", "badObject", "buffer",
                  "unsupported"}

(* the numbers of files ffmpeg may leave, in the order it reaches them *)
FileCounts == <<0, 1, 2, maxFrames, maxFrames + 1>>

(* what the catch block returns *)
Failure(message) == [success |-> FALSE, error |-> message]

IdleNative == nx = NULL

InitNative ==
    \E payload \in PayloadInputs, frameRate \in {0, 10} :
        nx = [payload |-> payload, frameRate |-> frameRate, pc |-> "new",
              written |-> 1, exit |-> NoValue, expectedFrames |-> NoValue,
              sent |-> 0, result |-> NULL]

(* the files in tmpDir *)
PngFiles == FileCounts[nx.written]

(* the payload is normalised to a Buffer and written to tmpFile *)
NxBegin ==
    /\ nx # NULL /\ nx.pc = "new"
    /\ nx' = IF nx.payload \in {"badString", "badObject"}
             THEN [nx EXCEPT !.pc = "returned", !.result = Failure("invalid_data_url")]
             ELSE IF nx.payload = "unsupported"
             THEN [nx EXCEPT !.pc = "returned", !.result = Failure("unsupported_payload")]
             ELSE [nx EXCEPT !.pc = "probe"]
    /\ UNCHANGED exceptNative

(* the probe before the extraction; its failure is only logged *)
NxProbe ==
    /\ nx # NULL /\ nx.pc = "probe"
    /\ \E expected \in {NoValue, 2} :
         nx' = [nx EXCEPT !.pc = "run", !.expectedFrames = expected]
    /\ UNCHANGED exceptNative

(* ffmpeg writes further frames *)
NxFfmpegWrites ==
    /\ nx # NULL /\ nx.pc = "run"
    /\ nx.written < Len(FileCounts)
    /\ nx' = [nx EXCEPT !.written = @ + 1]
    /\ UNCHANGED exceptNative

(* the 400 ms poll sends a progress event *)
NxPoll ==
    /\ nx # NULL /\ nx.pc = "run"
    /\ nx.sent < 1
    /\ nx' = [nx EXCEPT !.sent = @ + 1]
    /\ UNCHANGED exceptNative

(* ff.on('error'): ffmpeg could not be run *)
NxFfmpegError ==
    /\ nx # NULL /\ nx.pc = "run"
    /\ nx' = [nx EXCEPT !.pc = "returned", !.exit = NoValue, !.result = Failure("spawn")]
    /\ UNCHANGED exceptNative

(* an exit handler that resolves whatever the code *)
ExitAlwaysResolves(code) == "resolve"

(* if (code === 0) resolveRun(); else rejectRun(new Error('ffmpeg_failed')) *)
ExitOutcome(code) == IF code = 0 THEN "resolve" ELSE "reject"

(* ff.on('exit') *)
NxFfmpegExit ==
    /\ nx # NULL /\ nx.pc = "run"
    /\ \E code \in {0, 1} :
         nx' = IF ExitOutcome(code) = "resolve"
               THEN [nx EXCEPT !.pc = "timestamps", !.exit = code, !.sent = @ + 1]
               ELSE [nx EXCEPT !.pc = "returned", !.exit = code, !.sent = @ + 1,
                               !.result = Failure("ffmpeg_failed")]
    /\ UNCHANGED exceptNative

(* ffprobe -show_frames, then the directory is read and the two checks on  *)
(* files.length are made                                                   *)
NxTimestamps ==
    /\ nx # NULL /\ nx.pc = "timestamps"
    /\ \E probeFails \in BOOLEAN :
         nx' = IF probeFails
               THEN [nx EXCEPT !.pc = "returned", !.result = Failure("ffprobe")]
               ELSE IF PngFiles = 0
               THEN [nx EXCEPT !.pc = "returned", !.result = Failure("no_frames_extracted")]
               ELSE IF PngFiles > maxFrames
               THEN [nx EXCEPT !.pc = "returned", !.result = Failure("too_many_frames")]
               ELSE [nx EXCEPT !.pc = "read"]
    /\ UNCHANGED exceptNative

(* the loop that reads and decodes every file, which may throw at any of   *)
(* them, and the return                                                    *)
NxRead ==
    /\ nx # NULL /\ nx.pc = "read"
    /\ \E failsAt \in {0, 1, PngFiles} :
         nx' = IF failsAt # 0
               THEN [nx EXCEPT !.pc = "returned", !.result = Failure("png")]
               ELSE [nx EXCEPT !.pc = "returned",
                               !.result = [success |-> TRUE, fps |-> NULL,
                                           framesCount |-> PngFiles,
                                           frames |-> [i \in 1..PngFiles |-> i]]]
    /\ UNCHANGED exceptNative

NextNative ==
    \/ NxBegin \/ NxProbe \/ NxFfmpegWrites \/ NxPoll \/ NxFfmpegError \/ NxFfmpegExit
    \/ NxTimestamps \/ NxRead

(* C34: extract:frames never returns a successful result with a partial or *)
(* empty frame list: when ffmpeg fails, when no frame was extracted, or    *)
(* when more than 1000 frames were extracted, it returns success = false   *)
(* with no frames; every call that ends, ends by returning                 *)
C34_NoPartialSuccess ==
    (nx # NULL /\ nx.pc = "returned") =>
        /\ nx.result # NULL
        /\ nx.result.success =>
               /\ nx.exit = 0
               /\ PngFiles \in 1..maxFrames
               /\ nx.result.frames = [i \in 1..PngFiles |-> i]
        /\ (nx.exit # 0 \/ PngFiles = 0 \/ PngFiles > maxFrames) =>
               /\ ~nx.result.success
               /\ "frames" \notin DOMAIN nx.result

(* ffmpeg has failed after writing two frames and the call has returned *)
C34_Witness ==
    /\ nx # NULL /\ nx.pc = "returned" /\ nx.exit = 1 /\ PngFiles = 2
    /\ nx.result = Failure("ffmpeg_failed")

(***************************************************************************)
(* extractFramesWithWorker and the worker it runs                          *)
(* (src/src/renderer/renderer.js:807-935,                                  *)
(* src/src/renderer/frame-extractor-worker.js:100-194).                    *)
(*                                                                         *)
(* xw is one call: pc is where the call is ("decode": awaiting             *)
(* dataUrlToUint8Array; "run": the promise's executor has run), result and *)
(* by are the promise's state and the path that settled it, calls counts   *)
(* the resolve and reject calls made, completed is the flag of that name,  *)
(* listening says whether onMessage is attached, timer is the 20 s timer,  *)
(* worker the Worker object with terminatedBy the path that terminated it, *)
(* inbox the messages the worker has posted that are not yet handled,      *)
(* posted their number so far, wended whether the worker has posted its    *)
(* last message, progress the number of 'progress' messages handled,       *)
(* native whether window.electronAPI.extractFramesNode exists, awaiting    *)
(* whether the timer's call of it is pending, signal the abortSignal and   *)
(* heard whether its 'abort' listener is attached.                         *)
(***************************************************************************)
MaxPosts == 3

IdleWorkerExtract == xw = NULL

InitWorkerExtract ==
    \E native \in BOOLEAN, signal \in {"none", "idle"} :
        xw = [pc |-> "decode", result |-> "pending", by |-> "none", calls |-> 0,
              completed |-> FALSE, listening |-> FALSE, timer |-> "unset",
              worker |-> "none", terminatedBy |-> "none", inbox |-> <<>>,
              posted |-> 0, wended |-> FALSE, progress |-> 0, native |-> native,
              awaiting |-> FALSE, signal |-> signal, heard |-> FALSE]

(* a promise whose every resolve and reject call takes effect *)
SettleAgain(x, outcome, path) ==
    [x EXCEPT !.result = outcome, !.by = path, !.calls = @ + 1]

(* resolve(...) and reject(...): only the first call settles the promise *)
Settle(x, outcome, path) ==
    IF x.result = "pending"
    THEN [x EXCEPT !.result = outcome, !.by = path, !.calls = @ + 1]
    ELSE [x EXCEPT !.calls = @ + 1]

(* worker.terminate(): the messages not yet handled are dropped *)
Terminate(x, path) ==
    IF x.worker = "alive"
    THEN [x EXCEPT !.worker = "terminated", !.terminatedBy = path, !.inbox = <<>>]
    ELSE x

(* clearTimeout(timer) *)
ClearTimer(x) == [x EXCEPT !.timer = IF @ = "armed" THEN "cleared" ELSE @]

(* onMessage(e) *)
onMessage(x, type) ==
    IF type = "progress" THEN [x EXCEPT !.progress = @ + 1]
    ELSE IF type = "complete"
    THEN Terminate(Settle([ClearTimer(x) EXCEPT !.completed = TRUE, !.listening = FALSE],
                          "frames", "complete"), "complete")
    ELSE IF type = "error"
    THEN Terminate(Settle([ClearTimer(x) EXCEPT !.listening = FALSE],
                          "Worker error", "error"), "error")
    ELSE IF type = "aborted"
    THEN Terminate(Settle([ClearTimer(x) EXCEPT !.listening = FALSE],
                          "AbortError", "aborted"), "aborted")
    ELSE x

(* dataUrlToUint8Array has settled; on a value the executor runs: the       *)
(* worker, the listeners, the timer and the 'extract' message.  An 'abort' *)
(* listener added to a signal that is aborted already is never called.     *)
XwStart ==
    /\ UNCHANGED exceptWorkerExtract
    /\ xw.pc = "decode"
    /\ \E decoded \in BOOLEAN, cloned \in BOOLEAN :
         xw' = IF ~decoded
               THEN Settle([xw EXCEPT !.pc = "run"], "TypeError", "decode")
               ELSE LET x == [xw EXCEPT !.pc = "run", !.worker = "alive",
                                        !.listening = TRUE, !.timer = "armed",
                                        !.heard = (xw.signal = "idle")]
                    IN  IF cloned THEN x
                        ELSE Settle(Terminate([ClearTimer(x) EXCEPT !.listening = FALSE],
                                              "postMessage"),
                                    "DataCloneError", "postMessage")

(* the worker posts a message: 'status' and 'progress' while it extracts,  *)
(* then 'complete', or 'error' from its catch                              *)
XwWorkerPosts ==
    /\ UNCHANGED exceptWorkerExtract
    /\ xw.worker = "alive" /\ ~xw.wended /\ xw.posted < MaxPosts
    /\ \E type \in {"status", "progress", "complete", "error"} :
         xw' = [xw EXCEPT !.inbox = Append(@, type), !.posted = @ + 1,
                          !.wended = type \in {"complete", "error"}]

(* the message event of the oldest message the worker has posted *)
XwDeliver ==
    /\ UNCHANGED exceptWorkerExtract
    /\ xw.worker = "alive" /\ xw.inbox # <<>>
    /\ xw' = IF xw.listening
             THEN onMessage([xw EXCEPT !.inbox = Tail(@)], Head(xw.inbox))
             ELSE [xw EXCEPT !.inbox = Tail(@)]

(* the signal is aborted; its listener, when attached, runs once *)
XwAbort ==
    /\ UNCHANGED exceptWorkerExtract
    /\ xw.signal = "idle"
    /\ xw' = IF xw.heard /\ ~xw.completed
             THEN Settle(Terminate([ClearTimer(xw) EXCEPT !.signal = "aborted",
                                                          !.heard = FALSE,
                                                          !.listening = FALSE],
                                   "abort"),
                         "AbortError", "abort")
             ELSE [xw EXCEPT !.signal = "aborted", !.heard = FALSE]

(* the 20 s timer fires *)
XwTimer ==
    /\ UNCHANGED exceptWorkerExtract
    /\ xw.timer = "armed"
    /\ xw' = IF xw.completed THEN [xw EXCEPT !.timer = "fired"]
             ELSE LET x == Terminate([xw EXCEPT !.timer = "fired", !.listening = FALSE],
                                     "timer")
                  IN  IF x.native THEN [x EXCEPT !.awaiting = TRUE]
                      ELSE Settle(x, "Extraction timed out", "timer")

(* the extractFramesNode call of the timer has settled *)
XwNativeReply ==
    /\ UNCHANGED exceptWorkerExtract
    /\ xw.awaiting
    /\ \E res \in {"frames", "failure", "throws"} :
         xw' = IF res = "frames"
               THEN Settle([xw EXCEPT !.awaiting = FALSE], "frames", "native")
               ELSE Settle([xw EXCEPT !.awaiting = FALSE], "Extraction timed out", "timer")

NextWorkerExtract ==
    \/ XwStart \/ XwWorkerPosts \/ XwDeliver \/ XwAbort \/ XwTimer \/ XwNativeReply

(* C35: once the worker has reported frame progress, the 20 s timer never  *)
(* terminates the extraction                                               *)
C35_NoTimeoutAfterProgress ==
    ~(xw # NULL /\ xw.progress > 0 /\ xw.terminatedBy = "timer")

(* the call has settled *)
Settled == xw # NULL /\ xw.result # "pending"

(* the paths on which the call settles *)
SettlePaths ==
    {"decode", "postMessage", "complete", "error", "aborted", "abort", "timer", "native"}

MaxMillis == 1
MaxCreated == 3

CrTick ==
    /\ UNCHANGED <<exceptHost, hostReply, terminated>>
    /\ host.now < MaxMillis
    /\ host' = [host EXCEPT !.now = @ + 1]

CrCreateGif ==
    /\ UNCHANGED exceptHost
    /\ Len(host.heap) < MaxCreated
    /\ gif_create

CrCreateMuxer ==
    /\ UNCHANGED <<exceptHost, terminated>>
    /\ host' = video_createMuxer(host)
    /\ Reply("createMuxer", "ok", FALSE, 0)

CrAddChunk ==
    /\ UNCHANGED <<exceptHost, terminated>>
    /\ \E muxerId \in DOMAIN host.muxers :
           /\ host.muxers[muxerId] = <<>>
           /\ host' = video_addChunk(host, muxerId, 1, TRUE)
           /\ Reply("addChunk", "ok", FALSE, 1)

CrCancel ==
    /\ UNCHANGED exceptHost
    /\ \E gifId \in 0..MaxMillis : gif_cancel(gifId)

NextHandles == CrTick \/ CrCreateGif \/ CrCreateMuxer \/ CrAddChunk \/ CrCancel

(* C40: gif:create and video:createMuxer return a handle that no           *)
(* registered encoder or muxer has: a creation takes a handle that is not  *)
(* in global.gifEncoders, and a registered muxer keeps the chunks it was   *)
(* given                                                                   *)
C40_FreshHandles ==
    [][/\ Len(host'.heap) > Len(host.heap) => host.now \notin DOMAIN host.gifEncoders
       /\ \A id \in DOMAIN host.muxers :
              id \in DOMAIN host'.muxers => Len(host'.muxers[id]) >= Len(host.muxers[id])]_vars

(***************************************************************************)
(* The specifications.                                                     *)
(***************************************************************************)
LZWAlone ==
    /\ InitLZW
    /\ IdleGif /\ IdleHost /\ IdleExport /\ IdleRenderer
    /\ IdleConverter /\ IdleResample /\ IdleProgress /\ IdleExtract
    /\ IdlePalette /\ IdleMarkup /\ IdleGlyph /\ IdleTiming
    /\ IdleTransparent /\ IdleNeuQuant /\ IdleNative /\ IdleWorkerExtract
SpecLZW == LZWAlone /\ [][NextLZW]_vars

GifAlone ==
    /\ InitGif
    /\ IdleLZW /\ IdleHost /\ IdleExport /\ IdleRenderer
    /\ IdleConverter /\ IdleResample /\ IdleProgress /\ IdleExtract
    /\ IdlePalette /\ IdleMarkup /\ IdleGlyph /\ IdleTiming
    /\ IdleTransparent /\ IdleNeuQuant /\ IdleNative /\ IdleWorkerExtract
SpecGif == GifAlone /\ [][NextGif]_vars

HostAlone ==
    /\ IdleHost
    /\ IdleLZW /\ IdleGif /\ IdleExport /\ IdleRenderer
    /\ IdleConverter /\ IdleResample /\ IdleProgress /\ IdleExtract
    /\ IdlePalette /\ IdleMarkup /\ IdleGlyph /\ IdleTiming
    /\ IdleTransparent /\ IdleNeuQuant /\ IdleNative /\ IdleWorkerExtract
SpecHost == HostAlone /\ [][NextHost]_vars
SpecHandles == HostAlone /\ [][NextHandles]_vars

ExportAlone ==
    /\ InitExport
    /\ IdleLZW /\ IdleGif /\ IdleHost /\ IdleRenderer
    /\ IdleConverter /\ IdleResample /\ IdleProgress /\ IdleExtract
    /\ IdlePalette /\ IdleMarkup /\ IdleGlyph /\ IdleTiming
    /\ IdleTransparent /\ IdleNeuQuant /\ IdleNative /\ IdleWorkerExtract
SpecExport == ExportAlone /\ [][NextExport]_vars

RendererAlone ==
    /\ IdleRenderer
    /\ IdleLZW /\ IdleGif /\ IdleHost /\ IdleExport
    /\ IdleConverter /\ IdleResample /\ IdleProgress /\ IdleExtract
    /\ IdlePalette /\ IdleMarkup /\ IdleGlyph /\ IdleTiming
    /\ IdleTransparent /\ IdleNeuQuant /\ IdleNative /\ IdleWorkerExtract
SpecRenderer == RendererAlone /\ [][NextRenderer]_vars

ConverterAlone ==
    /\ InitConverter
    /\ IdleLZW /\ IdleGif /\ IdleHost /\ IdleExport
    /\ IdleRenderer /\ IdleResample /\ IdleProgress /\ IdleExtract
    /\ IdlePalette /\ IdleMarkup /\ IdleGlyph /\ IdleTiming
    /\ IdleTransparent /\ IdleNeuQuant /\ IdleNative /\ IdleWorkerExtract
SpecConverter == ConverterAlone /\ [][NextConverter]_vars

ResampleAlone ==
    /\ InitResample
    /\ IdleLZW /\ IdleGif /\ IdleHost /\ IdleExport
    /\ IdleRenderer /\ IdleConverter /\ IdleProgress /\ IdleExtract
    /\ IdlePalette /\ IdleMarkup /\ IdleGlyph /\ IdleTiming
    /\ IdleTransparent /\ IdleNeuQuant /\ IdleNative /\ IdleWorkerExtract
SpecResample == ResampleAlone /\ [][NextResample]_vars

ProgressAlone ==
    /\ InitProgress
    /\ IdleLZW /\ IdleGif /\ IdleHost /\ IdleExport
    /\ IdleRenderer /\ IdleConverter /\ IdleResample /\ IdleExtract
    /\ IdlePalette /\ IdleMarkup /\ IdleGlyph /\ IdleTiming
    /\ IdleTransparent /\ IdleNeuQuant /\ IdleNative /\ IdleWorkerExtract
SpecProgress == ProgressAlone /\ [][NextProgress]_vars

ExtractAlone ==
    /\ InitExtract
    /\ IdleLZW /\ IdleGif /\ IdleHost /\ IdleExport
    /\ IdleRenderer /\ IdleConverter /\ IdleResample /\ IdleProgress
    /\ IdlePalette /\ IdleMarkup /\ IdleGlyph /\ IdleTiming
    /\ IdleTransparent /\ IdleNeuQuant /\ IdleNative /\ IdleWorkerExtract
SpecExtract == ExtractAlone /\ [][NextExtract]_vars

PaletteAlone ==
    /\ InitPalette
    /\ IdleLZW /\ IdleGif /\ IdleHost /\ IdleExport
    /\ IdleRenderer /\ IdleConverter /\ IdleResample /\ IdleProgress
    /\ IdleExtract /\ IdleMarkup /\ IdleGlyph /\ IdleTiming
    /\ IdleTransparent /\ IdleNeuQuant /\ IdleNative /\ IdleWorkerExtract
SpecPalette == PaletteAlone /\ [][NextPalette]_vars

MarkupAlone ==
    /\ InitMarkup
    /\ IdleLZW /\ IdleGif /\ IdleHost /\ IdleExport
    /\ IdleRenderer /\ IdleConverter /\ IdleResample /\ IdleProgress
    /\ IdleExtract /\ IdlePalette /\ IdleGlyph /\ IdleTiming
    /\ IdleTransparent /\ IdleNeuQuant /\ IdleNative /\ IdleWorkerExtract
SpecMarkup == MarkupAlone /\ [][NextMarkup]_vars

GlyphAlone ==
    /\ InitGlyph
    /\ IdleLZW /\ IdleGif /\ IdleHost /\ IdleExport
    /\ IdleRenderer /\ IdleConverter /\ IdleResample /\ IdleProgress
    /\ IdleExtract /\ IdlePalette /\ IdleMarkup /\ IdleTiming
    /\ IdleTransparent /\ IdleNeuQuant /\ IdleNative /\ IdleWorkerExtract
SpecGlyph == GlyphAlone /\ [][NextGlyph]_vars

TimingAlone ==
    /\ InitTiming
    /\ IdleLZW /\ IdleGif /\ IdleHost /\ IdleExport
    /\ IdleRenderer /\ IdleConverter /\ IdleResample /\ IdleProgress
    /\ IdleExtract /\ IdlePalette /\ IdleMarkup /\ IdleGlyph
    /\ IdleTransparent /\ IdleNeuQuant /\ IdleNative /\ IdleWorkerExtract
SpecTiming == TimingAlone /\ [][NextTiming]_vars

TransparentAlone ==
    /\ InitTransparent
    /\ IdleLZW /\ IdleGif /\ IdleHost /\ IdleExport
    /\ IdleRenderer /\ IdleConverter /\ IdleResample /\ IdleProgress
    /\ IdleExtract /\ IdlePalette /\ IdleMarkup /\ IdleGlyph
    /\ IdleTiming /\ IdleNeuQuant /\ IdleNative /\ IdleWorkerExtract
SpecTransparent == TransparentAlone /\ [][NextTransparent]_vars

NeuQuantAlone ==
    /\ InitNeuQuant
    /\ IdleLZW /\ IdleGif /\ IdleHost /\ IdleExport
    /\ IdleRenderer /\ IdleConverter /\ IdleResample /\ IdleProgress
    /\ IdleExtract /\ IdlePalette /\ IdleMarkup /\ IdleGlyph
    /\ IdleTiming /\ IdleTransparent /\ IdleNative /\ IdleWorkerExtract
SpecNeuQuant == NeuQuantAlone /\ [][NextNeuQuant]_vars

NativeAlone ==
    /\ InitNative
    /\ IdleLZW /\ IdleGif /\ IdleHost /\ IdleExport
    /\ IdleRenderer /\ IdleConverter /\ IdleResample /\ IdleProgress
    /\ IdleExtract /\ IdlePalette /\ IdleMarkup /\ IdleGlyph
    /\ IdleTiming /\ IdleTransparent /\ IdleNeuQuant /\ IdleWorkerExtract
SpecNative == NativeAlone /\ [][NextNative]_vars

WorkerExtractAlone ==
    /\ InitWorkerExtract
    /\ IdleLZW /\ IdleGif /\ IdleHost /\ IdleExport
    /\ IdleRenderer /\ IdleConverter /\ IdleResample /\ IdleProgress
    /\ IdleExtract /\ IdlePalette /\ IdleMarkup /\ IdleGlyph
    /\ IdleTiming /\ IdleTransparent /\ IdleNeuQuant /\ IdleNative
SpecWorkerExtract == WorkerExtractAlone /\ [][NextWorkerExtract]_vars

(* the event loop runs every task that is ready: the continuation of the  *)
(* await, the message events and the timer                               *)
SpecWorkerExtractFair ==
    /\ SpecWorkerExtract
    /\ WF_vars(XwStart) /\ WF_vars(XwDeliver) /\ WF_vars(XwTimer)

====
